---- MODULE Spec2Model ----
(***************************************************************************)
(* Lightweight Orchestration Core (LOC): the CoreEngine scheduling loop,   *)
(* its result handlers and the MetaReflectionModule it consults.           *)
(*                                                                         *)
(* JavaScript runs one callback at a time, so the synchronous part of      *)
(* processQueue (up to its `await`) is one atomic step and the             *)
(* continuation after the await (the promise resolved or rejected) is      *)
(* another.  Dispatches between the two are "in flight".                   *)
(*                                                                         *)
(* Numbers: predictions are kept in units of 1e-4 (toFixed(4)),            *)
(* predicted impacts in units of 1e-2 (toFixed(2)), confidence scores in   *)
(* units of 1e-2, impacts in units of 1e-1.  Running means are kept as     *)
(* exact fractions.  A value that is not a finite number in the program    *)
(* (undefined, NaN, a string) is the marker NotANumber.                    *)
(***************************************************************************)
EXTENDS Integers, Sequences, FiniteSets, TLC

\* ---------------------------------------------------------------- bounds
MaxTasks == 3
MaxSubmits == 2
MaxAgents == 3
MaxDispatches == 3
MaxDecompositions == 1
MaxDirectAgents == 2
MaxDirectDispatches == 2
MaxSentinelTasks == 4
MaxToxic == 2
MaxCycleTasks == 5
MaxResourceSubmits == 3
MaxCollaborations == 3

\* ------------------------------------------------------ program constants
THRESHOLD == 6500
CONFIDENCE_THRESHOLD == 60
MAX_RETRIES == 3
SPLIT_COMPLEXITY == 6
INTERFERENCE_STEP == 1500
PREDICTION_FLOOR == 1000
DEFAULT_SKILL == 50
DEFAULT_DOMAIN_IMPACT == 50
DEFAULT_PRIORITY == 1
PRIORITY_CEILING == 10
COLLAB_SKILL_MIN == 4

NotANumber == 0 - 1
NoTask == 0
NoAgent == "null"
AGGREGATOR_SYSTEM == "AGGREGATOR_SYSTEM"

\* ------------------------------------------------------------ input sets
VALID_DOMAINS == {"logic", "analysis"}
ToxicDomains == {"null", "non-existent"}
AgentIds == {"agent_a", "agent_b", AGGREGATOR_SYSTEM}
PlainTasks == {[cx |-> 5, p |-> 0], [cx |-> 5, p |-> 9], [cx |-> 8, p |-> 0]}
TaskDomains == {"logic"}
ImpactVals == {60}

\* ---------------------------------------------------------------- helpers
Max(a, b) == IF a >= b THEN a ELSE b
Min(a, b) == IF a <= b THEN a ELSE b

RECURSIVE Gcd(_, _)
Gcd(a, b) == IF b = 0 THEN a ELSE Gcd(b, a % b)

\* Round a non-negative fraction num/den to the nearest integer (half up).
RoundDiv(num, den) == (2 * num + den) \div (2 * den)

\* A fraction in lowest terms; den = 0 is NaN.
Frac(num, den) ==
    IF den = 0 THEN [num |-> 0, den |-> 0]
    ELSE IF num = 0 THEN [num |-> 0, den |-> 1]
    ELSE LET g == Gcd(num, den) IN [num |-> num \div g, den |-> den \div g]

FracNaN == [num |-> 0, den |-> 0]
FracZero == [num |-> 0, den |-> 1]

RECURSIVE SumOver(_, _)
SumOver(S, f) ==
    IF S = {} THEN 0
    ELSE LET x == CHOOSE y \in S : TRUE IN f[x] + SumOver(S \ {x}, f)

SeqToSet(s) == {s[i] : i \in 1..Len(s)}

VARIABLES agents, taskQueue, taskOutputs, inflight, schedLog, calls, resources,
          executionTimer, executionLogs, collaborationSpace,
          collaborationLogs, collaborateResult
vars == <<agents, taskQueue, taskOutputs, inflight, schedLog, calls, resources,
          executionTimer, executionLogs, collaborationSpace,
          collaborationLogs, collaborateResult>>

\* ------------------------------------------------------------ the stores
\* this.agents: Object.values order is insertion order, so a sequence.
AgentIndex(id) == CHOOSE i \in 1..Len(agents) : agents[i].id = id
Registered == {agents[i].id : i \in 1..Len(agents)}
AgentOf(id) == agents[AgentIndex(id)]

\* this.taskQueue.find(t => t.id === id)
HasTask(id) == \E i \in 1..Len(taskQueue) : taskQueue[i].id = id
TaskIndex(id) == CHOOSE i \in 1..Len(taskQueue) : taskQueue[i].id = id
TaskOf(id) == taskQueue[TaskIndex(id)]
TaskIds == {taskQueue[i].id : i \in 1..Len(taskQueue)}

NoPerf == [tasksCompleted |-> 0, successes |-> 0, averageImpact |-> FracZero]

NewAgent(id, labels, skills) ==
    [id |-> id, domainLabels |-> labels, skillScores |-> skills,
     status |-> "idle", performanceData |-> NoPerf,
     domains |-> [d \in VALID_DOMAINS \cup ToxicDomains |-> NoPerf]]


\* ------------------------------------------------ MetaReflectionModule
\* (skillScores[domain] || sum(skillScores)/10 || 5), times ten.
SkillTimesTen(agent, domain) ==
    LET sk == agent.skillScores
        own == IF domain \in DOMAIN sk THEN sk[domain] ELSE 0
        sum == SumOver(DOMAIN sk, sk)
    IN IF own # 0 THEN 10 * own
       ELSE IF sum # 0 THEN sum
       ELSE DEFAULT_SKILL

\* An interference check that looks at processing tasks only.
ActiveInterferencesProcessingOnly(q, task) ==
    {i \in 1..Len(q) : /\ q[i].domainLabel \in task.interferedBy
                       /\ q[i].status = "processing"}

\* Tasks whose domain interferes and that are processing or completed.
ActiveInterferences(q, task) ==
    {i \in 1..Len(q) : /\ q[i].domainLabel \in task.interferedBy
                       /\ q[i].status \in {"processing", "completed"}}

\* historyScore * (1 - uncertainty) + skillScore * uncertainty, where
\* uncertainty = 1 / (tasksCompleted + 1) and historyScore =
\* successes / tasksCompleted (0.5 with weight 0 before the first task);
\* then the interference penalty and toFixed(4).
predictSuccess(q, agent, task) ==
    LET dp == IF task.domainLabel \in DOMAIN agent.domains
              THEN agent.domains[task.domainLabel] ELSE NoPerf
        n == dp.tasksCompleted
        base == RoundDiv(100 * (100 * dp.successes + SkillTimesTen(agent, task.domainLabel)), n + 1)
        c == Cardinality(ActiveInterferences(q, task))
    IN IF c > 0 THEN Max(PREDICTION_FLOOR, base - INTERFERENCE_STEP * c) ELSE base

\* A filter that looks at the agents' status only.
AvailableAgentsAnyIdle(ags, excludeIds) ==
    {i \in 1..Len(ags) : ags[i].status = "idle"}

\* Object.values(agents).filter(idle and not excluded), in insertion order.
AvailableAgents(ags, excludeIds) ==
    {i \in 1..Len(ags) : ags[i].status = "idle" /\ ags[i].id \notin excludeIds}

\* An evaluation that takes the first available agent without sorting.
evaluateAssignmentUnsorted(ags, q, task, excludeIds) ==
    LET av == AvailableAgents(ags, excludeIds)
    IN IF av = {} THEN [agentId |-> NoAgent, predictedSuccess |-> 0]
       ELSE LET first == CHOOSE i \in av : \A j \in av : i <= j
            IN [agentId |-> ags[first].id,
                predictedSuccess |-> predictSuccess(q, ags[first], task)]

\* evaluations.sort(desc) is stable: the first agent with the best prediction.
evaluateAssignment(ags, q, task, excludeIds) ==
    LET av == AvailableAgents(ags, excludeIds)
    IN IF av = {} THEN [agentId |-> NoAgent, predictedSuccess |-> 0]
       ELSE LET best == CHOOSE i \in av :
                           \A j \in av :
                              \/ predictSuccess(q, ags[i], task) > predictSuccess(q, ags[j], task)
                              \/ /\ predictSuccess(q, ags[i], task) = predictSuccess(q, ags[j], task)
                                 /\ i <= j
            IN [agentId |-> ags[best].id,
                predictedSuccess |-> predictSuccess(q, ags[best], task)]

\* A remediation that counts only the agents labelled with the domain.
suggestRemediationByLabel(ags, task) ==
    IF task.complexityScore > SPLIT_COMPLEXITY THEN "SPLIT"
    ELSE LET others == {i \in 1..Len(ags) :
                          task.domainLabel \in ags[i].domainLabels}
         IN IF Cardinality(others) > 1 THEN "COLLABORATE" ELSE "REROUTE"

suggestRemediation(ags, task) ==
    IF task.complexityScore > SPLIT_COMPLEXITY THEN "SPLIT"
    ELSE LET others == {i \in 1..Len(ags) :
                          \/ task.domainLabel \in ags[i].domainLabels
                          \/ /\ task.domainLabel \in DOMAIN ags[i].skillScores
                             /\ ags[i].skillScores[task.domainLabel] > COLLAB_SKILL_MIN}
         IN IF Cardinality(others) > 1 THEN "COLLABORATE" ELSE "REROUTE"

FracAdd(a, b) ==
    IF a.den = 0 \/ b.den = 0 THEN FracNaN
    ELSE Frac(a.num * b.den + b.num * a.den, a.den * b.den)

\* sum over agents of averageImpact * tasksCompleted, and of tasksCompleted,
\* for the agents that have worked in the domain.
RECURSIVE DomainImpactSum(_, _, _)
DomainImpactSum(ags, domain, i) ==
    IF i > Len(ags) THEN [sum |-> FracZero, count |-> 0]
    ELSE LET rest == DomainImpactSum(ags, domain, i + 1)
             dp == ags[i].domains[domain]
         IN IF dp.tasksCompleted > 0
            THEN [sum |-> FracAdd(rest.sum,
                                  IF dp.averageImpact.den = 0 THEN FracNaN
                                  ELSE Frac(dp.averageImpact.num * dp.tasksCompleted,
                                            dp.averageImpact.den)),
                  count |-> rest.count + dp.tasksCompleted]
            ELSE rest

\* 0.6 * complexity * (1 + priority / 10) + 0.4 * avgDomainImpact, toFixed(2).
predictImpact(ags, complexityScore, priority, domain) ==
    LET cx == IF complexityScore = 0 THEN 5 ELSE complexityScore
        pr == IF priority = 0 THEN DEFAULT_PRIORITY ELSE priority
        acc == DomainImpactSum(ags, domain, 1)
    IN IF acc.count = 0 THEN 6 * cx * (10 + pr) + 4 * DEFAULT_DOMAIN_IMPACT
       ELSE IF acc.sum.den = 0 THEN NotANumber
       ELSE RoundDiv(6 * cx * (10 + pr) * acc.sum.den * acc.count + 4 * acc.sum.num,
                     acc.sum.den * acc.count)

\* ------------------------------------------------------- queue ordering
\* The comparator of taskQueue.sort: priority desc, then predictedImpact desc.
SortPriority(t) == IF t.priority = 0 THEN DEFAULT_PRIORITY ELSE t.priority
SortImpact(t) == IF t.predictedImpact = NotANumber THEN 0 ELSE t.predictedImpact
Precedes(a, b) ==
    \/ SortPriority(a) > SortPriority(b)
    \/ SortPriority(a) = SortPriority(b) /\ SortImpact(a) > SortImpact(b)

\* Insert x before the first element it strictly precedes (stable).
InsertSorted(s, x) ==
    LET before == {i \in 1..Len(s) : Precedes(x, s[i])}
        k == IF before = {} THEN Len(s) + 1
             ELSE CHOOSE i \in before : \A j \in before : i <= j
    IN SubSeq(s, 1, k - 1) \o <<x>> \o SubSeq(s, k, Len(s))

RECURSIVE SortFrom(_, _, _)
SortFrom(q, i, acc) ==
    IF i > Len(q) THEN acc ELSE SortFrom(q, i + 1, InsertSorted(acc, q[i]))

\* Array.prototype.sort with the comparator above (a stable sort).
SortQueue(q) == SortFrom(q, 1, <<>>)

\* ------------------------------------------------------ engine state
\* The engine's stores as one value, for the handlers that call each other.
Log(event, taskId) == [event |-> event, taskId |-> taskId]

IndexOfAgent(ags, id) == CHOOSE i \in 1..Len(ags) : ags[i].id = id
IsAgent(ags, id) == \E i \in 1..Len(ags) : ags[i].id = id
IndexOfTask(q, id) == CHOOSE i \in 1..Len(q) : q[i].id = id

\* perf.tasksCompleted += 1; successRate and averageImpact as running means
\* over tasksCompleted (averageImpact only touched on success).
UpdatePerf(perf, success, impact) ==
    LET n == perf.tasksCompleted + 1
        avg == perf.averageImpact
    IN [tasksCompleted |-> n,
        successes |-> perf.successes + (IF success THEN 1 ELSE 0),
        averageImpact |->
            IF ~success THEN avg
            ELSE IF avg.den = 0 \/ impact = NotANumber THEN FracNaN
            ELSE Frac(avg.num * (n - 1) + impact * avg.den, avg.den * n)]

\* updateAgentPerformance, and through it updateAgentMetadata when the
\* domain is truthy (a null domain skips the per-domain update).
updateAgentPerformance(ags, agentId, success, impact, domain) ==
    LET i == IndexOfAgent(ags, agentId)
        a == ags[i]
        withGlobal == [a EXCEPT !.performanceData = UpdatePerf(@, success, impact)]
    IN [ags EXCEPT ![i] =
           IF domain = "null" THEN withGlobal
           ELSE [withGlobal EXCEPT !.domains[domain] = UpdatePerf(@, success, impact)]]

SetIdle(ags, agentId) ==
    IF IsAgent(ags, agentId)
    THEN [ags EXCEPT ![IndexOfAgent(ags, agentId)].status = "idle"]
    ELSE ags

\* A handler that forgets `task.retryCount += 1`.
BumpRetryForgotten(rc) == rc

\* retryCount += 1 (undefined + 1 is NaN, and NaN < 3 is false).
BumpRetry(rc) == IF rc = NotANumber THEN NotANumber ELSE rc + 1
MayRetry(rc) == rc # NotANumber /\ rc < MAX_RETRIES

\* Logger.execution: one entry pushed onto executionLogs, its status
\* defaulting to completed.
execution(logs, data) ==
    Append(logs, [taskId |-> data.taskId, agentId |-> data.agentId,
                  status |-> IF "status" \in DOMAIN data THEN data.status
                             ELSE "completed"])

\* An engine that records completions only.
recordExecutionCompletedOnly(st, taskId, agentId, status) ==
    IF status = "completed"
    THEN [st EXCEPT !.executionLogs =
                       execution(@, [taskId |-> taskId, agentId |-> agentId])]
    ELSE st

\* The execution record the engine emits when a task becomes completed or
\* failed.
recordExecution(st, taskId, agentId, status) ==
    [st EXCEPT !.executionLogs =
                  IF status = "completed"
                  THEN execution(@, [taskId |-> taskId, agentId |-> agentId])
                  ELSE execution(@, [taskId |-> taskId, agentId |-> agentId,
                                     status |-> status])]

handleTaskReassignment(st, taskId, agentId) ==
    LET i == IndexOfTask(st.taskQueue, taskId)
        t == st.taskQueue[i]
        rc == BumpRetry(t.retryCount)
        bumped == [t EXCEPT !.retryCount = rc,
                            !.failedAgents = Append(@, agentId)]
        new == [st EXCEPT
                  !.agents = SetIdle(@, agentId),
                  !.taskQueue[i] =
                      IF MayRetry(rc)
                      THEN [bumped EXCEPT !.status = "pending", !.assignedTo = NoAgent]
                      ELSE [bumped EXCEPT !.status = "failed"],
                  !.log = IF MayRetry(rc) THEN Log("TASK_REQUEUED", taskId)
                          ELSE Log("TASK_ABORTED", taskId)]
    IN IF MayRetry(rc) THEN new
       ELSE recordExecution(new, taskId, agentId, "failed")

handleTaskFailure(st, taskId, agentId) ==
    LET i == IndexOfTask(st.taskQueue, taskId)
        t == st.taskQueue[i]
        rc == BumpRetry(t.retryCount)
        bumped == [t EXCEPT !.retryCount = rc,
                            !.failedAgents = Append(@, agentId)]
        new == [st EXCEPT
                  !.agents = IF IsAgent(@, agentId)
                             THEN updateAgentPerformance(SetIdle(@, agentId), agentId,
                                                         FALSE, 0, t.domainLabel)
                             ELSE @,
                  !.taskQueue[i] =
                      IF MayRetry(rc)
                      THEN [bumped EXCEPT !.status = "pending", !.assignedTo = NoAgent]
                      ELSE [bumped EXCEPT !.status = "failed"],
                  !.log = IF MayRetry(rc) THEN Log("TASK_REASSIGNMENT", taskId)
                          ELSE Log("TASK_ABORTED", taskId)]
    IN IF MayRetry(rc) THEN new
       ELSE recordExecution(new, taskId, agentId, "failed")

\* output.actualImpact || 0: undefined and NaN become 0, a string stays.
ImpactOrZero(output) ==
    IF output.kind \in {"ok", "aggregated"} THEN output.actualImpact
    ELSE IF output.kind = "wrong_types" THEN NotANumber
    ELSE 0

\* The mean of the children's values, rounded to `scale` digits; anything
\* that is not a number makes the sum NaN.
MeanOf(vals, scale) ==
    IF \E i \in 1..Len(vals) : vals[i] = NotANumber THEN NotANumber
    ELSE IF Len(vals) = 0 THEN NotANumber
    ELSE RoundDiv(scale * SumOver(1..Len(vals), vals), Len(vals))

\* The mean of (r.predictedImpact || 0) over the children, toFixed(1), in
\* hundredths like task.predictedImpact.
PredictedImpactMean(vals) ==
    IF Len(vals) = 0 THEN NotANumber
    ELSE 10 * RoundDiv(SumOver(1..Len(vals),
                               [i \in 1..Len(vals) |->
                                   IF vals[i] = NotANumber THEN 0 ELSE vals[i]]),
                       10 * Len(vals))

Children(q, parentTaskId) ==
    SelectSeq(q, LAMBDA t : t.parentTaskId = parentTaskId)

RECURSIVE logOutput(_, _, _, _)
RECURSIVE checkAndAggregateParent(_, _)

\* checkAndAggregateParent: when every task whose parentTaskId is the parent
\* is completed, the parent is logged as completed by AGGREGATOR_SYSTEM.
checkAndAggregateParent(st, parentTaskId) ==
    LET q == st.taskQueue
    IN IF ~(\E i \in 1..Len(q) : q[i].id = parentTaskId) THEN st
       ELSE IF q[IndexOfTask(q, parentTaskId)].status = "completed" THEN st
       ELSE LET subtasks == Children(q, parentTaskId)
                allCompleted ==
                    /\ Len(subtasks) > 0
                    /\ \A i \in 1..Len(subtasks) : subtasks[i].status = "completed"
                has == SelectSeq(subtasks, LAMBDA t : t.id \in DOMAIN st.taskOutputs)
                conf == MeanOf([i \in 1..Len(has) |-> st.taskOutputs[has[i].id].confidenceScore], 1)
                imp == MeanOf([i \in 1..Len(has) |-> st.taskOutputs[has[i].id].actualImpact], 1)
                pred == PredictedImpactMean(
                            [i \in 1..Len(has) |-> st.taskOutputs[has[i].id].predictedImpact])
            IN IF allCompleted
               THEN logOutput(st, parentTaskId, AGGREGATOR_SYSTEM,
                              [kind |-> "aggregated", confidenceScore |-> conf,
                               predictedImpact |-> pred,
                               actualImpact |-> IF imp = NotANumber THEN 0 ELSE imp])
               ELSE st

\* logOutput: store the output, complete the task, release and credit the
\* agent, then aggregate the parent if there is one.
logOutput(st, taskId, agentId, output) ==
    LET i == IndexOfTask(st.taskQueue, taskId)
        t == st.taskQueue[i]
        stored == [agentId |-> agentId,
                   confidenceScore |-> IF output.kind \in {"ok", "aggregated"}
                                       THEN output.confidenceScore ELSE NotANumber,
                   predictedImpact |-> t.predictedImpact,
                   actualImpact |-> ImpactOrZero(output)]
        outs == [id \in DOMAIN st.taskOutputs \cup {taskId} |->
                    IF id = taskId THEN stored ELSE st.taskOutputs[id]]
        done == [recordExecution(st, taskId, agentId, "completed") EXCEPT
                   !.taskOutputs = outs,
                   !.taskQueue[i].status = "completed",
                   !.agents = IF IsAgent(@, agentId)
                              THEN updateAgentPerformance(SetIdle(@, agentId), agentId,
                                                          TRUE, ImpactOrZero(output),
                                                          t.domainLabel)
                              ELSE @]
        after == IF t.parentTaskId # NoTask
                 THEN checkAndAggregateParent(done, t.parentTaskId)
                 ELSE done
    IN [after EXCEPT !.log = Log("TASK_COMPLETED", taskId)]

\* ------------------------------------------------------------- tasks
\* The task object built by submitTask and decomposeTask.
NewTask(ags, id, spec, parentTaskId) ==
    [id |-> id,
     domainLabel |-> spec.domainLabel,
     complexityScore |-> spec.complexityScore,
     priority |-> spec.priority,
     dependencies |-> spec.dependencies,
     interferedBy |-> spec.interferedBy,
     subtasks |-> <<>>,
     parentTaskId |-> parentTaskId,
     status |-> "pending",
     assignedTo |-> NoAgent,
     retryCount |-> 0,
     failedAgents |-> <<>>,
     isCollaborative |-> FALSE,
     predictedSuccess |-> NotANumber,
     predictedImpact |-> predictImpact(ags, spec.complexityScore, spec.priority,
                                       spec.domainLabel)]

TaskSpec(domain, cx, prio, deps) ==
    [domainLabel |-> domain, complexityScore |-> cx, priority |-> prio,
     dependencies |-> deps, interferedBy |-> {}]

\* decomposeTask's loop: one new pending sub-task per spec, appended to the
\* queue and to the parent's subtasks.
RECURSIVE AddSubtasks(_, _, _, _)
AddSubtasks(st, parentTaskId, specs, k) ==
    IF k > Len(specs) THEN st
    ELSE LET q == st.taskQueue
             id == Len(q) + 1
             sub == NewTask(st.agents, id, specs[k], parentTaskId)
             pi == IndexOfTask(q, parentTaskId)
             q1 == Append([q EXCEPT ![pi].subtasks = Append(@, id)], sub)
         IN AddSubtasks([st EXCEPT !.taskQueue = q1,
                                   !.log = Log("SUBTASK_CREATED", id)],
                        parentTaskId, specs, k + 1)

decomposeTask(st, parentTaskId, specs) ==
    LET pi == IndexOfTask(st.taskQueue, parentTaskId)
        waiting == [st EXCEPT !.taskQueue[pi].status = "waiting_for_subtasks",
                              !.log = Log("TASK_DECOMPOSITION", parentTaskId)]
        added == AddSubtasks(waiting, parentTaskId, specs, 1)
    IN [added EXCEPT !.taskQueue = SortQueue(@)]

\* A split whose sub-tasks keep the complexity of the task they come from.
handleTaskSplittingWhole(st, task) ==
    LET p == IF task.priority = 0 THEN DEFAULT_PRIORITY ELSE task.priority
    IN decomposeTask(st, task.id,
          << TaskSpec(task.domainLabel, task.complexityScore, p + 1, {}),
             TaskSpec(task.domainLabel, task.complexityScore, task.priority, {}) >>)

handleTaskSplitting(st, task) ==
    LET p == IF task.priority = 0 THEN DEFAULT_PRIORITY ELSE task.priority
    IN decomposeTask(st, task.id,
          << TaskSpec(task.domainLabel, (task.complexityScore + 1) \div 2, p + 1, {}),
             TaskSpec(task.domainLabel, task.complexityScore \div 2, task.priority, {}) >>)

\* task.suggestedAction, undefined until a handler sets it.
SuggestedActionOf(t) ==
    IF "suggestedAction" \in DOMAIN t THEN t.suggestedAction ELSE "undefined"

\* A collaboration handler that raises the priority without a ceiling.
handleTaskCollaborationUncapped(st, taskId) ==
    LET i == IndexOfTask(st.taskQueue, taskId)
        t == st.taskQueue[i]
        p == IF t.priority = 0 THEN DEFAULT_PRIORITY ELSE t.priority
    IN [st EXCEPT !.taskQueue[i] =
           [suggestedAction |-> "USE_COLLABORATION_PROTOCOL"]
               @@ [t EXCEPT !.isCollaborative = TRUE, !.priority = p + 2]]

handleTaskCollaboration(st, taskId) ==
    LET i == IndexOfTask(st.taskQueue, taskId)
        t == st.taskQueue[i]
        p == IF t.priority = 0 THEN DEFAULT_PRIORITY ELSE t.priority
    IN [st EXCEPT !.taskQueue[i] =
           [suggestedAction |-> "USE_COLLABORATION_PROTOCOL"]
               @@ [t EXCEPT !.isCollaborative = TRUE,
                            !.priority = Min(p + 2, PRIORITY_CEILING)]]

\* ------------------------------------------------------- processQueue
\* A find() predicate without the dependency check.
IsReadyWithoutDependencies(q, t) ==
    /\ t.status = "pending"
    /\ Len(t.subtasks) = 0

\* The find() predicate: pending, not a parent, every dependency stored and
\* completed.
IsReady(q, t) ==
    /\ t.status = "pending"
    /\ Len(t.subtasks) = 0
    /\ \A dep \in t.dependencies :
          \E j \in 1..Len(q) : q[j].id = dep /\ q[j].status = "completed"

ReadyIndexes(q) == {i \in 1..Len(q) : IsReady(q, q[i])}

\* taskQueue.find: the first ready task in queue order (0 when none).
NextTaskIndex(q) ==
    IF ReadyIndexes(q) = {} THEN 0
    ELSE CHOOSE i \in ReadyIndexes(q) : \A j \in ReadyIndexes(q) : i <= j

\* What the tick decides for the ready task t it has picked: "none" (no
\* agent), "SPLIT", "REROUTE", or "DISPATCH" (directly or after COLLABORATE).
PlanOf(ags, q, t) ==
    LET ev == evaluateAssignment(ags, q, t, SeqToSet(t.failedAgents))
        low == ev.predictedSuccess < THRESHOLD
        strategy == IF low THEN suggestRemediation(ags, t) ELSE "NONE"
    IN [kind |-> IF ev.agentId = NoAgent THEN "none"
                 ELSE IF strategy \in {"SPLIT", "REROUTE"} THEN strategy
                 ELSE "DISPATCH",
        taskId |-> t.id,
        agentId |-> ev.agentId,
        predictedSuccess |-> ev.predictedSuccess,
        collaborate |-> (ev.agentId # NoAgent /\ strategy = "COLLABORATE")]

\* What the tick decides for the stores as they are: the plan for the first
\* ready task, "none" when no task is ready.
TickPlan(ags, q) ==
    LET ni == NextTaskIndex(q)
    IN IF ni = 0 THEN [kind |-> "none", taskId |-> NoTask, agentId |-> NoAgent,
                       predictedSuccess |-> 0, collaborate |-> FALSE]
       ELSE PlanOf(ags, q, q[ni])

EngineState == [agents |-> agents, taskQueue |-> taskQueue,
                taskOutputs |-> taskOutputs, log |-> schedLog,
                executionLogs |-> executionLogs]

Commit(st) ==
    /\ agents' = st.agents
    /\ taskQueue' = st.taskQueue
    /\ taskOutputs' = st.taskOutputs
    /\ schedLog' = st.log
    /\ executionLogs' = st.executionLogs

\* The task moved to processing and its agent marked busy.
MarkDispatched(st, plan) ==
    LET i == IndexOfTask(st.taskQueue, plan.taskId)
        a == IndexOfAgent(st.agents, plan.agentId)
    IN [st EXCEPT !.taskQueue[i].status = "processing",
                  !.taskQueue[i].assignedTo = plan.agentId,
                  !.taskQueue[i].predictedSuccess = plan.predictedSuccess,
                  !.agents[a].status = "busy",
                  !.log = Log("TASK_DISPATCHED", plan.taskId)]

\* processQueue up to its await: one tick of the loop (or a direct call).
\* `lim` caps the store and the number of dispatches explored.
ProcessQueue(lim) ==
    LET plan == TickPlan(agents, taskQueue)
        st == EngineState
    IN \/ /\ plan.kind = "none"
          /\ UNCHANGED vars
       \/ /\ plan.kind = "SPLIT"
          /\ Len(taskQueue) + 2 <= lim.tasks
          /\ Commit(handleTaskSplitting(st, TaskOf(plan.taskId)))
          /\ UNCHANGED <<inflight, calls, resources, executionTimer,
                         collaborationSpace, collaborationLogs,
                         collaborateResult>>
       \/ /\ plan.kind = "REROUTE"
          /\ Commit([st EXCEPT !.log = Log("TASK_REROUTED", plan.taskId)])
          /\ UNCHANGED <<inflight, calls, resources, executionTimer,
                         collaborationSpace, collaborationLogs,
                         collaborateResult>>
       \/ /\ plan.kind = "DISPATCH"
          /\ calls.dispatch < lim.dispatches
          /\ calls' = [calls EXCEPT !.dispatch = @ + 1]
          /\ Commit(MarkDispatched(
                      IF plan.collaborate
                      THEN handleTaskCollaboration(st, plan.taskId) ELSE st,
                      plan))
          /\ inflight' = Append(inflight, [taskId |-> plan.taskId,
                                           agentId |-> plan.agentId])
          /\ UNCHANGED <<resources, executionTimer, collaborationSpace,
                         collaborationLogs, collaborateResult>>

\* ------------------------------------------------ after the await
RemoveAt(s, i) == SubSeq(s, 1, i - 1) \o SubSeq(s, i + 1, Len(s))

\* Conforming results, below and above the confidence threshold.
ConformingResults ==
    {[kind |-> "ok", confidenceScore |-> c, actualImpact |-> m] :
        c \in {40, 90}, m \in ImpactVals}

\* EdgeCaseSimulation's chaos modes.
MalformedKinds == {"null", "undefined", "missing_fields", "nan"}
MalformedResults ==
    {[kind |-> k, confidenceScore |-> NotANumber, actualImpact |-> NotANumber] :
        k \in MalformedKinds}

DispatchResults == ConformingResults \cup MalformedResults

\* The try block after the await: reading a field of null or undefined
\* throws into the catch; `x < 0.6` is false for anything not a number.
HandleResult(st, taskId, agentId, result) ==
    IF result.kind \in {"null", "undefined"}
    THEN handleTaskFailure(st, taskId, agentId)
    ELSE IF result.kind = "ok" /\ result.confidenceScore < CONFIDENCE_THRESHOLD
    THEN handleTaskReassignment(st, taskId, agentId)
    ELSE logOutput(st, taskId, agentId, result)

\* The i-th dispatch in flight resolves with `result`.
ResolveWith(i, result) ==
    /\ Commit(HandleResult(EngineState, inflight[i].taskId,
                           inflight[i].agentId, result))
    /\ inflight' = RemoveAt(inflight, i)
    /\ UNCHANGED <<calls, resources, executionTimer, collaborationSpace,
                   collaborationLogs, collaborateResult>>

\* The i-th dispatch in flight rejects (an error or a timeout).
RejectAt(i) ==
    /\ Commit(handleTaskFailure(EngineState, inflight[i].taskId,
                                inflight[i].agentId))
    /\ inflight' = RemoveAt(inflight, i)
    /\ UNCHANGED <<calls, resources, executionTimer, collaborationSpace,
                   collaborationLogs, collaborateResult>>

DispatchResolves(results) ==
    \E i \in 1..Len(inflight) : \E result \in results : ResolveWith(i, result)

DispatchRejects ==
    \E i \in 1..Len(inflight) : RejectAt(i)

\* ------------------------------------------------- the public operations
\* The registrations tried: each id comes with one descriptor.
AgentSpecs ==
    [id \in AgentIds |->
        [domainLabels |-> {"logic"},
         skillScores |-> [d \in {"logic"} |-> IF id = "agent_b" THEN 4 ELSE 9]]]

RegisterAgent(lim, ids) ==
    \E id \in ids \ Registered :
        /\ Len(agents) < lim.agents
        /\ agents' = Append(agents, NewAgent(id, AgentSpecs[id].domainLabels,
                                             AgentSpecs[id].skillScores))
        /\ UNCHANGED <<taskQueue, taskOutputs, inflight, schedLog, calls,
                       resources, executionTimer, executionLogs,
                       collaborationSpace, collaborationLogs,
                       collaborateResult>>

UnknownTask == MaxTasks + 100

\* Submissions that pass validateTask: plain tasks, tasks depending on a
\* stored or an unknown id, and tasks naming a stored task as their parent.
PlainInputs ==
    {[spec |-> TaskSpec(d, c.cx, c.p, {}), parentTaskId |-> NoTask] :
        d \in TaskDomains, c \in PlainTasks}
DependentInputs ==
    {[spec |-> TaskSpec(d, 5, 0, {k}), parentTaskId |-> NoTask] :
        d \in TaskDomains, k \in TaskIds \cup {UnknownTask}}
ChildInputs ==
    {[spec |-> TaskSpec(d, 5, 0, {}), parentTaskId |-> k] :
        d \in TaskDomains, k \in TaskIds}
SubmitInputs == PlainInputs \cup DependentInputs \cup ChildInputs

SubmitTask(lim, inputs) ==
    \E in \in inputs :
        /\ Len(taskQueue) < lim.tasks
        /\ calls.submit < lim.submits
        /\ calls' = [calls EXCEPT !.submit = @ + 1]
        /\ taskQueue' = SortQueue(Append(taskQueue,
                           NewTask(agents, Len(taskQueue) + 1, in.spec, in.parentTaskId)))
        /\ UNCHANGED <<agents, taskOutputs, inflight, schedLog, resources,
                       executionTimer, executionLogs, collaborationSpace,
                       collaborationLogs, collaborateResult>>

\* A direct call of decomposeTask: on a stored task it decomposes; on an
\* unknown id it logs DECOMPOSITION_FAILED and throws.
DecomposeTaskOf(lim, parentTaskId) ==
    IF HasTask(parentTaskId)
    THEN /\ Len(taskQueue) < lim.tasks
         /\ calls.decompose < lim.decompositions
         /\ calls' = [calls EXCEPT !.decompose = @ + 1]
         /\ Commit(decomposeTask(EngineState, parentTaskId,
                                 <<TaskSpec("logic", 5, 0, {})>>))
         /\ UNCHANGED <<inflight, resources, executionTimer,
                        collaborationSpace, collaborationLogs,
                        collaborateResult>>
    ELSE /\ schedLog' = Log("DECOMPOSITION_FAILED", parentTaskId)
         /\ UNCHANGED <<agents, taskQueue, taskOutputs, inflight, calls,
                        resources, executionTimer, executionLogs,
                        collaborationSpace, collaborationLogs,
                        collaborateResult>>

DecomposeTask(lim) ==
    \E parentTaskId \in TaskIds \cup {UnknownTask} :
        DecomposeTaskOf(lim, parentTaskId)

\* A task object pushed onto taskQueue directly, bypassing submitTask: no
\* complexity, priority, retryCount, failedAgents or subtasks, a null or
\* unknown domain, possibly a dependency on a task that does not exist.
ToxicTask(id, domain, deps) ==
    [id |-> id,
     domainLabel |-> domain,
     complexityScore |-> 0,
     priority |-> 0,
     dependencies |-> deps,
     interferedBy |-> {},
     subtasks |-> <<>>,
     parentTaskId |-> NoTask,
     status |-> "pending",
     assignedTo |-> NoAgent,
     retryCount |-> NotANumber,
     failedAgents |-> <<>>,
     isCollaborative |-> FALSE,
     predictedSuccess |-> NotANumber,
     predictedImpact |-> NotANumber]

IsToxic(t) == t.domainLabel \in ToxicDomains

\* engine.taskQueue.push(toxic): no validation, no sort.
InjectToxic(lim) ==
    \E domain \in ToxicDomains : \E deps \in {{}, {UnknownTask}} :
        /\ Len(taskQueue) < lim.tasks
        /\ calls.inject < lim.toxic
        /\ calls' = [calls EXCEPT !.inject = @ + 1]
        /\ taskQueue' = Append(taskQueue, ToxicTask(Len(taskQueue) + 1, domain, deps))
        /\ UNCHANGED <<agents, taskOutputs, inflight, schedLog, resources,
                       executionTimer, executionLogs, collaborationSpace,
                       collaborationLogs, collaborateResult>>

\* ---------------------------------------------------- specifications
NoLog == [event |-> "ENGINE_INIT", taskId |-> NoTask]
\* this.resources before any registerResource.
NoResources == <<>>
NoCalls == [submit |-> 0, dispatch |-> 0, decompose |-> 0, inject |-> 0]

Init ==
    /\ agents = <<>>
    /\ taskQueue = <<>>
    /\ taskOutputs = <<>>
    /\ inflight = <<>>
    /\ schedLog = NoLog
    /\ calls = NoCalls
    /\ resources = NoResources
    /\ executionTimer = FALSE
    /\ executionLogs = <<>>
    /\ collaborationSpace = <<>>
    /\ collaborationLogs = <<>>
    /\ collaborateResult = "null"

\* The engine driven through registerAgent, submitTask and its loop.
Limits == [tasks |-> MaxTasks, submits |-> MaxSubmits, agents |-> MaxAgents,
           dispatches |-> MaxDispatches, decompositions |-> 0, toxic |-> 0]

Next ==
    \/ RegisterAgent(Limits, AgentIds)
    \/ SubmitTask(Limits, SubmitInputs)
    \/ ProcessQueue(Limits)
    \/ DispatchResolves(DispatchResults)
    \/ DispatchRejects

Spec == Init /\ [][Next]_vars

\* The same with direct calls of decomposeTask.
DirectLimits == [tasks |-> MaxTasks, submits |-> MaxDecompositions,
                 agents |-> MaxDirectAgents, dispatches |-> MaxDirectDispatches,
                 decompositions |-> MaxDecompositions, toxic |-> 0]

NextDirect ==
    \/ RegisterAgent(DirectLimits, AgentIds)
    \/ SubmitTask(DirectLimits, SubmitInputs)
    \/ ProcessQueue(DirectLimits)
    \/ DispatchResolves(DispatchResults)
    \/ DispatchRejects
    \/ DecomposeTask(DirectLimits)

SpecDirect == Init /\ [][NextDirect]_vars

\* A deployment one of whose agents registered under the id the engine
\* uses for aggregated outputs; every dispatch succeeds.
SentinelLimits == [tasks |-> MaxSentinelTasks, submits |-> MaxSentinelTasks,
                   agents |-> MaxDirectAgents, dispatches |-> MaxDispatches,
                   decompositions |-> 0, toxic |-> 0]
SentinelAgents == {AGGREGATOR_SYSTEM, "agent_b"}
SentinelInputs == {in \in SubmitInputs : in.spec.priority = 0}
SentinelResults == {r \in ConformingResults : r.confidenceScore >= CONFIDENCE_THRESHOLD}

NextSentinel ==
    \/ RegisterAgent(SentinelLimits, SentinelAgents)
    \/ SubmitTask(SentinelLimits, SentinelInputs)
    \/ ProcessQueue(SentinelLimits)
    \/ DispatchResolves(SentinelResults)

SpecSentinel == Init /\ [][NextSentinel]_vars

\* Task objects pushed onto the queue behind submitTask's back.
ToxicLimits == [tasks |-> MaxTasks, submits |-> MaxDecompositions,
                agents |-> MaxDirectAgents, dispatches |-> MaxDirectDispatches,
                decompositions |-> 0, toxic |-> MaxToxic]

NextToxic ==
    \/ RegisterAgent(ToxicLimits, AgentIds)
    \/ InjectToxic(ToxicLimits)
    \/ SubmitTask(ToxicLimits, PlainInputs)
    \/ ProcessQueue(ToxicLimits)
    \/ DispatchResolves(DispatchResults)
    \/ DispatchRejects

SpecToxic == Init /\ [][NextToxic]_vars

\* ------------------------------------------------------- validation
\* Values of taskData.complexityScore and taskData.priority as submitTask
\* receives them: a number, nothing, or a string.
JsNumber(n) == [type |-> "number", value |-> n]
JsUndefined == [type |-> "undefined", value |-> 0]
JsString == [type |-> "string", value |-> 0]

\* A validateTask without the range check on complexityScore.
validateTaskAnyComplexity(taskData) ==
    LET errors ==
          (IF taskData.description \in {"", "undefined"}
           THEN {"description"} ELSE {})
          \cup (IF taskData.domainLabel \notin VALID_DOMAINS
                THEN {"domainLabel"} ELSE {})
          \cup (IF taskData.complexityScore.type # "number"
                THEN {"complexityScore missing"} ELSE {})
          \cup (IF taskData.priority.type \notin {"undefined", "number"}
                THEN {"priority"} ELSE {})
    IN [isValid |-> errors = {}, errors |-> errors]

\* validateTask: the errors it collects ("undefined" and "null" stand for a
\* missing description and a missing domain).
validateTask(taskData) ==
    LET errors ==
          (IF taskData.description \in {"", "undefined"}
           THEN {"description"} ELSE {})
          \cup (IF taskData.domainLabel = "null" THEN {"domainLabel missing"}
                ELSE IF taskData.domainLabel \notin VALID_DOMAINS
                THEN {"domainLabel unknown"} ELSE {})
          \cup (IF taskData.complexityScore.type # "number"
                THEN {"complexityScore missing"}
                ELSE IF \/ taskData.complexityScore.value < 1
                        \/ taskData.complexityScore.value > 10
                THEN {"complexityScore range"} ELSE {})
          \cup (IF taskData.priority.type \notin {"undefined", "number"}
                THEN {"priority"} ELSE {})
    IN [isValid |-> errors = {}, errors |-> errors]

\* The message of the Error a failed validation throws (after logging it).
ErrorOf(log) ==
    IF log.event = "TASK_SUBMISSION_FAILED" THEN "Invalid Task"
    ELSE IF log.event = "AGENT_REGISTRATION_FAILED" THEN "Invalid Agent Registration"
    ELSE IF log.event = "DECOMPOSITION_FAILED" THEN "Parent task not found"
    ELSE "none"

\* submitTask on any taskData: validation first, then the task is built,
\* pushed and the queue sorted.
SubmitTaskData(lim, datas) ==
    \E taskData \in datas :
        IF validateTask(taskData).isValid
        THEN SubmitTask(lim,
                 {[spec |-> TaskSpec(taskData.domainLabel,
                                     taskData.complexityScore.value,
                                     taskData.priority.value,
                                     taskData.dependencies),
                   parentTaskId |-> NoTask]})
        ELSE /\ schedLog' = Log("TASK_SUBMISSION_FAILED", NoTask)
             /\ UNCHANGED <<agents, taskQueue, taskOutputs, inflight, calls,
                            resources, executionTimer, executionLogs,
                            collaborationSpace, collaborationLogs,
                            collaborateResult>>

\* A validateAgent that does not look the id up in the registry.
validateAgentAnyId(metadata, existingAgents) ==
    LET errors ==
          (IF metadata.domainLabels = {} THEN {"domainLabels missing"}
           ELSE IF ~(metadata.domainLabels \subseteq VALID_DOMAINS)
           THEN {"domainLabels unknown"} ELSE {})
          \cup (IF metadata.apiEndpoint = "undefined" THEN {"apiEndpoint"} ELSE {})
          \cup (IF metadata.performanceData = "undefined"
                THEN {"performanceData"} ELSE {})
    IN [isValid |-> errors = {}, errors |-> errors]

\* validateAgent: the errors it collects for the metadata, given the
\* registry.
validateAgent(metadata, existingAgents) ==
    LET errors ==
          (IF IsAgent(existingAgents, metadata.id) THEN {"duplicate id"} ELSE {})
          \cup (IF metadata.domainLabels = {} THEN {"domainLabels missing"}
                ELSE IF ~(metadata.domainLabels \subseteq VALID_DOMAINS)
                THEN {"domainLabels unknown"} ELSE {})
          \cup (IF metadata.apiEndpoint = "undefined" THEN {"apiEndpoint"} ELSE {})
          \cup (IF metadata.performanceData = "undefined"
                THEN {"performanceData"} ELSE {})
    IN [isValid |-> errors = {}, errors |-> errors]

\* registerAgent on any metadata.
RegisterAgentMetadata(lim, metas) ==
    \E metadata \in metas :
        IF validateAgent(metadata, agents).isValid
        THEN /\ Len(agents) < lim.agents
             /\ agents' = Append(agents, NewAgent(metadata.id, metadata.domainLabels,
                                                  metadata.skillScores))
             /\ UNCHANGED <<taskQueue, taskOutputs, inflight, schedLog,
                            calls, resources, executionTimer, executionLogs,
                            collaborationSpace, collaborationLogs,
                            collaborateResult>>
        ELSE /\ schedLog' = Log("AGENT_REGISTRATION_FAILED", NoTask)
             /\ UNCHANGED <<agents, taskQueue, taskOutputs, inflight, calls,
                            resources, executionTimer, executionLogs,
                            collaborationSpace, collaborationLogs,
                            collaborateResult>>

\* The submissions tried: valid ones, and a valid one with one field
\* missing, unknown, out of range or of the wrong type.
ValidTaskData ==
    [description |-> "text", domainLabel |-> "logic",
     complexityScore |-> JsNumber(5), priority |-> JsUndefined, dependencies |-> {}]
TaskDatas ==
    {[ValidTaskData EXCEPT !.complexityScore = cx, !.priority = p] :
        cx \in {JsNumber(5), JsNumber(8)}, p \in {JsUndefined, JsNumber(9)}}
    \cup {[ValidTaskData EXCEPT !.description = "undefined"]}
    \cup {[ValidTaskData EXCEPT !.domainLabel = dom] : dom \in ToxicDomains}
    \cup {[ValidTaskData EXCEPT !.complexityScore = cx] :
             cx \in {JsNumber(0), JsNumber(11), JsUndefined, JsString}}
    \cup {[ValidTaskData EXCEPT !.priority = JsString]}

\* The registrations tried: each id with its descriptor, complete or
\* lacking its endpoint, or with a label that is no valid domain.
AgentMetas ==
    {[id |-> id, domainLabels |-> labels, skillScores |-> AgentSpecs[id].skillScores,
      apiEndpoint |-> ep, performanceData |-> "object"] :
        id \in AgentIds \ {AGGREGATOR_SYSTEM},
        labels \in {{"logic"}, {"logic", "non-existent"}},
        ep \in {"http://agent", "undefined"}}

ValidationLimits == [tasks |-> MaxTasks, submits |-> MaxSubmits,
                     agents |-> MaxDirectAgents, dispatches |-> MaxDirectDispatches,
                     decompositions |-> 0, toxic |-> 0]

NextValidation ==
    \/ RegisterAgentMetadata(ValidationLimits, AgentMetas)
    \/ SubmitTaskData(ValidationLimits, TaskDatas)
    \/ ProcessQueue(ValidationLimits)
    \/ DispatchResolves(DispatchResults)
    \/ DispatchRejects

SpecValidation == Init /\ [][NextValidation]_vars

\* ------------------------------------------- dependency cycles
\* complex_dependency_workflow.js pushes three tasks that wait for each
\* other straight onto the queue: A -> B -> C -> A.
CycleShape == <<[domainLabel |-> "logic", complexityScore |-> 6],
                [domainLabel |-> "analysis", complexityScore |-> 4],
                [domainLabel |-> "logic", complexityScore |-> 5]>>
CyclePriority == 5

CycleTask(id, shape, dep) ==
    [id |-> id,
     domainLabel |-> shape.domainLabel,
     complexityScore |-> shape.complexityScore,
     priority |-> CyclePriority,
     dependencies |-> {dep},
     interferedBy |-> {},
     subtasks |-> <<>>,
     parentTaskId |-> NoTask,
     status |-> "pending",
     assignedTo |-> NoAgent,
     retryCount |-> 0,
     failedAgents |-> <<>>,
     isCollaborative |-> FALSE,
     predictedSuccess |-> NotANumber,
     predictedImpact |-> NotANumber]

\* The three engine.taskQueue.push calls, which no tick can interleave: the
\* k-th task depends on the next one and the last on the first.
InjectCycle(lim) ==
    LET n == Len(CycleShape)
        base == Len(taskQueue)
    IN /\ base + n <= lim.tasks
       /\ calls.inject < lim.toxic
       /\ calls' = [calls EXCEPT !.inject = @ + 1]
       /\ taskQueue' = taskQueue \o
              [k \in 1..n |-> CycleTask(base + k, CycleShape[k], base + (k % n) + 1)]
       /\ UNCHANGED <<agents, taskOutputs, inflight, schedLog, resources,
                      executionTimer, executionLogs, collaborationSpace,
                      collaborationLogs, collaborateResult>>

\* The workflow: agents, the cycle, tasks submitted before and after it
\* (plain ones and ones waiting for a stored task), and the loop.
CycleLimits == [tasks |-> MaxCycleTasks, submits |-> MaxSubmits,
                agents |-> MaxDirectAgents, dispatches |-> MaxDirectDispatches,
                decompositions |-> 0, toxic |-> MaxDecompositions]

NextCycle ==
    \/ RegisterAgent(CycleLimits, AgentIds)
    \/ InjectCycle(CycleLimits)
    \/ SubmitTask(CycleLimits, PlainInputs \cup DependentInputs)
    \/ ProcessQueue(CycleLimits)
    \/ DispatchResolves(DispatchResults)
    \/ DispatchRejects

SpecCycle == Init /\ [][NextCycle]_vars

\* --------------------------------------------------- shared resources
\* this.resources: resource id -> descriptor. The tests register resources
\* and submit tasks with resourceRequirements; the arbiter itself is
\* specified as register(id, mode, capacity = 1), tryAcquire(taskId,
\* requirements) and release(taskId).
ResourceDescriptor(id, mode, capacity) ==
    [id |-> id, mode |-> mode,
     capacity |-> IF mode = "exclusive" THEN 1 ELSE capacity,
     currentUsage |-> 0, holders |-> {}]

registerResource(res, id, mode, capacity) ==
    (id :> ResourceDescriptor(id, mode, capacity)) @@ res

\* Every requested resource is registered and has a free slot.
CanAcquire(res, requirements) ==
    \A r \in requirements :
        r \in DOMAIN res /\ res[r].currentUsage < res[r].capacity

\* The ledger with the task holding every resource it asked for.
Granted(res, taskId, requirements) ==
    [r \in DOMAIN res |->
        IF r \in requirements
        THEN [res[r] EXCEPT !.currentUsage = @ + 1, !.holders = @ \cup {taskId}]
        ELSE res[r]]

\* An arbiter that grants every request.
tryAcquireUnchecked(res, taskId, requirements) ==
    [ok |-> TRUE, ledger |-> Granted(res, taskId, requirements)]

\* All-or-nothing: every requested lease is taken, or none is and the
\* ledger stays as it was.
tryAcquire(res, taskId, requirements) ==
    IF CanAcquire(res, requirements)
    THEN [ok |-> TRUE, ledger |-> Granted(res, taskId, requirements)]
    ELSE [ok |-> FALSE, ledger |-> res]

\* An arbiter whose release is a no-op.
releaseForgotten(res, taskId) == res

\* Every lease of the task is given back.
release(res, taskId) ==
    [r \in DOMAIN res |->
        IF taskId \in res[r].holders
        THEN [res[r] EXCEPT !.currentUsage = @ - 1, !.holders = @ \ {taskId}]
        ELSE res[r]]

\* task.resourceRequirements: the resource ids the task asks for (none for a
\* task submitted without the field).
RequirementsOf(t) ==
    IF "resourceRequirements" \in DOMAIN t THEN t.resourceRequirements ELSE {}

\* The resources of the simulation, in its order of registration.
ResourceSpecs == <<[id |-> "PRIMARY_API", mode |-> "exclusive", capacity |-> 1],
                   [id |-> "COMPUTE_CLUSTER", mode |-> "parallel", capacity |-> 2]>>

RegisterResource ==
    LET n == Cardinality(DOMAIN resources) + 1
    IN /\ n <= Len(ResourceSpecs)
       /\ resources' = registerResource(resources, ResourceSpecs[n].id,
                                        ResourceSpecs[n].mode, ResourceSpecs[n].capacity)
       /\ UNCHANGED <<agents, taskQueue, taskOutputs, inflight, schedLog,
                      calls, executionTimer, executionLogs,
                      collaborationSpace, collaborationLogs,
                      collaborateResult>>

\* Submissions of the simulation: tasks asking for one registered resource
\* each.
ResourcePriority == 5
ResourceInputs ==
    {[spec |-> TaskSpec("logic", 5, ResourcePriority, {}), requirements |-> {r}] :
        r \in DOMAIN resources}

\* submitTask with resourceRequirements in the task data.
SubmitResourceTask(lim) ==
    \E in \in ResourceInputs :
        /\ Len(taskQueue) < lim.tasks
        /\ calls.submit < lim.submits
        /\ calls' = [calls EXCEPT !.submit = @ + 1]
        /\ taskQueue' = SortQueue(Append(taskQueue,
               NewTask(agents, Len(taskQueue) + 1, in.spec, NoTask)
                   @@ [resourceRequirements |-> in.requirements]))
        /\ UNCHANGED <<agents, taskOutputs, inflight, schedLog, resources,
                       executionTimer, executionLogs, collaborationSpace,
                       collaborationLogs, collaborateResult>>

\* The tick with the arbiter between remediation and dispatch: the leases
\* are taken together with the agent, or the task is left pending.
ProcessQueueArbitrated(lim) ==
    LET plan == TickPlan(agents, taskQueue)
        st == IF plan.collaborate
              THEN handleTaskCollaboration(EngineState, plan.taskId)
              ELSE EngineState
        lease == tryAcquire(resources, plan.taskId,
                            RequirementsOf(TaskOf(plan.taskId)))
    IN \/ /\ plan.kind # "DISPATCH"
          /\ ProcessQueue(lim)
       \/ /\ plan.kind = "DISPATCH"
          /\ ~lease.ok
          /\ Commit(st)
          /\ UNCHANGED <<inflight, calls, resources, executionTimer,
                         collaborationSpace, collaborationLogs,
                         collaborateResult>>
       \/ /\ plan.kind = "DISPATCH"
          /\ lease.ok
          /\ calls.dispatch < lim.dispatches
          /\ calls' = [calls EXCEPT !.dispatch = @ + 1]
          /\ Commit(MarkDispatched(st, plan))
          /\ inflight' = Append(inflight, [taskId |-> plan.taskId,
                                           agentId |-> plan.agentId])
          /\ resources' = lease.ledger
          /\ UNCHANGED <<executionTimer, collaborationSpace,
                         collaborationLogs, collaborateResult>>

\* The dispatch answers or rejects: the task leaves processing and its
\* leases are released.
ResolveArbitrated(results) ==
    \E i \in 1..Len(inflight) : \E result \in results :
        /\ Commit(HandleResult(EngineState, inflight[i].taskId,
                               inflight[i].agentId, result))
        /\ inflight' = RemoveAt(inflight, i)
        /\ resources' = release(resources, inflight[i].taskId)
        /\ UNCHANGED <<calls, executionTimer, collaborationSpace,
                       collaborationLogs, collaborateResult>>

RejectArbitrated ==
    \E i \in 1..Len(inflight) :
        /\ Commit(handleTaskFailure(EngineState, inflight[i].taskId,
                                    inflight[i].agentId))
        /\ inflight' = RemoveAt(inflight, i)
        /\ resources' = release(resources, inflight[i].taskId)
        /\ UNCHANGED <<calls, executionTimer, collaborationSpace,
                       collaborationLogs, collaborateResult>>

\* agentSpecs.forEach(spec => engine.registerAgent(...)): a fixed order.
ResourceAgentOrder == <<"agent_a", "agent_b", AGGREGATOR_SYSTEM>>
NextResourceAgent ==
    {ResourceAgentOrder[k] : k \in {Len(agents) + 1} \cap 1..Len(ResourceAgentOrder)}

ResourceLimits == [tasks |-> MaxTasks, submits |-> MaxResourceSubmits,
                   agents |-> MaxAgents, dispatches |-> MaxDispatches,
                   decompositions |-> 0, toxic |-> 0]

NextResource ==
    \/ RegisterResource
    \/ RegisterAgent(ResourceLimits, NextResourceAgent)
    \/ SubmitResourceTask(ResourceLimits)
    \/ ProcessQueueArbitrated(ResourceLimits)
    \/ ResolveArbitrated(ConformingResults)
    \/ RejectArbitrated

SpecResource == Init /\ [][NextResource]_vars

\* ------------------------------------------- remediation strategies
\* test_meta_reflection.js: a very complex task of the highest priority and
\* a moderate one, for a skilled and a junior agent.
ReflectionInputs ==
    {[spec |-> TaskSpec("logic", 9, PRIORITY_CEILING, {}), parentTaskId |-> NoTask],
     [spec |-> TaskSpec("logic", 5, 5, {}), parentTaskId |-> NoTask],
     [spec |-> TaskSpec("logic", 7, 0, {}), parentTaskId |-> NoTask]}

ReflectionAgents == {"agent_a", "agent_b"}

ReflectionLimits == [tasks |-> MaxSentinelTasks, submits |-> MaxSubmits,
                     agents |-> MaxDirectAgents, dispatches |-> MaxDispatches,
                     decompositions |-> 0, toxic |-> 0]

NextReflection ==
    \/ RegisterAgent(ReflectionLimits, ReflectionAgents)
    \/ SubmitTask(ReflectionLimits, ReflectionInputs)
    \/ ProcessQueue(ReflectionLimits)
    \/ DispatchResolves(ConformingResults)
    \/ DispatchRejects

SpecReflection == Init /\ [][NextReflection]_vars

\* ------------------------------------------------- the execution loop
\* startExecutionLoop: a second start only logs.
StartExecutionLoop ==
    /\ executionTimer' = TRUE
    /\ schedLog' = IF executionTimer THEN Log("LOOP_ALREADY_RUNNING", NoTask)
                   ELSE Log("LOOP_STARTED", NoTask)
    /\ UNCHANGED <<agents, taskQueue, taskOutputs, inflight, calls,
                   resources, executionLogs, collaborationSpace,
                   collaborationLogs, collaborateResult>>

\* stopExecutionLoop: clearInterval, when a timer is set.
StopExecutionLoop ==
    \/ /\ executionTimer
       /\ executionTimer' = FALSE
       /\ schedLog' = Log("LOOP_STOPPED", NoTask)
       /\ UNCHANGED <<agents, taskQueue, taskOutputs, inflight, calls,
                      resources, executionLogs, collaborationSpace,
                      collaborationLogs, collaborateResult>>
    \/ /\ ~executionTimer
       /\ UNCHANGED vars

\* A timer callback that fires whether or not the interval was cleared.
LoopTickAlways(lim) == ProcessQueue(lim)

\* The setInterval callback: processQueue, while the timer is set.
LoopTick(lim) == executionTimer /\ ProcessQueue(lim)

LoopLimits == [tasks |-> MaxTasks, submits |-> MaxSubmits,
               agents |-> MaxDirectAgents, dispatches |-> MaxDirectDispatches,
               decompositions |-> 0, toxic |-> 0]

\* The engine driven by its timer only.
NextLoop ==
    \/ RegisterAgent(LoopLimits, ReflectionAgents)
    \/ SubmitTask(LoopLimits, PlainInputs)
    \/ StartExecutionLoop
    \/ StopExecutionLoop
    \/ LoopTick(LoopLimits)
    \/ DispatchResolves(DispatchResults)
    \/ DispatchRejects

SpecLoop == Init /\ [][NextLoop]_vars

\* ------------------------------------------------- the collaboration bus
\* The payloads agents exchange; "null" stands for null.
CollaborationData == {"map", "draft"}
CollaborationActions ==
    {"SHARE_RESULT", "REQUEST_INPUT", "SYNC_PROGRESS", "UNKNOWN_ACTION"}
CollaborationAgents == {"agent_a", "agent_b"}

\* The context a fresh contextId gets.
NewContext == [sharedResults |-> <<>>, requests |-> <<>>, syncPoints |-> <<>>]

\* contextId = task.parentTaskId || taskId.
ContextIdOf(q, taskId) ==
    LET t == q[IndexOfTask(q, taskId)]
    IN IF t.parentTaskId # NoTask THEN t.parentTaskId ELSE taskId

\* obj[key] = value on an object kept as a function.
Put(obj, key, value) ==
    [k \in DOMAIN obj \cup {key} |-> IF k = key THEN value ELSE obj[k]]

\* collaborate's REQUEST_INPUT case: the request is pushed, then a shared
\* result of the target, if any, is returned.
requestInput(context, taskId, agentId, payload) ==
    LET pushed == [context EXCEPT !.requests =
                      Append(@, [from |-> agentId, taskId |-> taskId,
                                 payload |-> payload])]
    IN [context |-> pushed,
        result |-> IF /\ payload.targetTaskId # NoTask
                      /\ payload.targetTaskId \in DOMAIN pushed.sharedResults
                   THEN pushed.sharedResults[payload.targetTaskId].data
                   ELSE "null"]

\* collaborate(taskId, agentId, action, payload) for a stored task: the
\* context is created on first use, the call is logged, and the action is
\* applied. The answer holds the new space, the new log and the value the
\* call resolves with.
collaborate(space, logs, q, taskId, agentId, action, payload) ==
    LET contextId == ContextIdOf(q, taskId)
        context == IF contextId \in DOMAIN space THEN space[contextId]
                   ELSE NewContext
        logged == Append(logs, [taskId |-> taskId, agentId |-> agentId,
                                action |-> action, payload |-> payload])
        request == requestInput(context, taskId, agentId, payload)
        after ==
            CASE action = "SHARE_RESULT" ->
                   [context EXCEPT !.sharedResults =
                       Put(@, taskId, [agentId |-> agentId, data |-> payload.data])]
              [] action = "REQUEST_INPUT" -> request.context
              [] action = "SYNC_PROGRESS" ->
                   [context EXCEPT !.syncPoints = Put(@, taskId, payload.data)]
              [] OTHER -> context
    IN [space |-> Put(space, contextId, after),
        logs |-> logged,
        result |-> IF action = "REQUEST_INPUT" THEN request.result ELSE "null"]

\* What a call carries: shared data, a request's target, or progress.
CollaborationPayloads(action) ==
    IF action = "REQUEST_INPUT"
    THEN {[targetTaskId |-> k, data |-> "null"] : k \in TaskIds \cup {NoTask}}
    ELSE IF action = "SHARE_RESULT"
    THEN {[targetTaskId |-> NoTask, data |-> d] : d \in CollaborationData}
    ELSE {[targetTaskId |-> NoTask, data |-> "draft"]}

\* A collaborate that logs the call before it looks the task up.
CollaborateOnLoggedFirst(taskId, agentId, action, payload) ==
    /\ IF HasTask(taskId)
       THEN LET call == collaborate(collaborationSpace, collaborationLogs,
                                    taskQueue, taskId, agentId, action, payload)
            IN /\ collaborationSpace' = call.space
               /\ collaborationLogs' = call.logs
               /\ collaborateResult' = call.result
       ELSE /\ collaborateResult' = "Error: Task not found"
            /\ collaborationLogs' =
                  Append(collaborationLogs,
                         [taskId |-> taskId, agentId |-> agentId,
                          action |-> action, payload |-> payload])
            /\ UNCHANGED collaborationSpace
    /\ UNCHANGED <<agents, taskQueue, taskOutputs, inflight, schedLog,
                   calls, resources, executionTimer, executionLogs>>

\* One call of collaborate; a call for a task that is not stored throws
\* before anything is touched.
CollaborateOn(taskId, agentId, action, payload) ==
    /\ IF HasTask(taskId)
       THEN LET call == collaborate(collaborationSpace, collaborationLogs,
                                    taskQueue, taskId, agentId, action, payload)
            IN /\ collaborationSpace' = call.space
               /\ collaborationLogs' = call.logs
               /\ collaborateResult' = call.result
       ELSE /\ collaborateResult' = "Error: Task not found"
            /\ UNCHANGED <<collaborationSpace, collaborationLogs>>
    /\ UNCHANGED <<agents, taskQueue, taskOutputs, inflight, schedLog,
                   calls, resources, executionTimer, executionLogs>>

Collaborate(lim) ==
    \E taskId \in TaskIds \cup {UnknownTask}, agentId \in CollaborationAgents,
       action \in CollaborationActions :
      \E payload \in CollaborationPayloads(action) :
        /\ Len(collaborationLogs) < lim.collaborations
        /\ CollaborateOn(taskId, agentId, action, payload)

\* A parent and its sub-tasks, submitted through submitTask, and the agents'
\* calls on the bus.
CollaborationInputs ==
    {[spec |-> TaskSpec("logic", 5, 0, {}), parentTaskId |-> k] :
        k \in TaskIds \cup {NoTask}}

CollaborationLimits == [tasks |-> MaxTasks, submits |-> MaxResourceSubmits,
                        agents |-> 0, dispatches |-> 0, decompositions |-> 0,
                        toxic |-> 0, collaborations |-> MaxCollaborations]

NextCollaboration ==
    \/ SubmitTask(CollaborationLimits, CollaborationInputs)
    \/ Collaborate(CollaborationLimits)

SpecCollaboration == Init /\ [][NextCollaboration]_vars

\* -------------------------------------------- remediation by coverage
\* Agents that differ in how they relate to the domain "logic": labelled with
\* it, skilled in it without the label, or a stranger to it.
RemediationMetas ==
    {[id |-> "agent_a", domainLabels |-> {"logic"},
      skillScores |-> [d \in {"logic"} |-> 4],
      apiEndpoint |-> "http://agent", performanceData |-> "object"],
     [id |-> "agent_b", domainLabels |-> {"analysis"},
      skillScores |-> [d \in {"logic", "analysis"} |-> IF d = "logic" THEN 5 ELSE 9],
      apiEndpoint |-> "http://agent", performanceData |-> "object"],
     [id |-> "agent_c", domainLabels |-> {"analysis"},
      skillScores |-> [d \in {"analysis"} |-> 9],
      apiEndpoint |-> "http://agent", performanceData |-> "object"],
     [id |-> "agent_d", domainLabels |-> {"logic"},
      skillScores |-> [d \in {"logic"} |-> 3],
      apiEndpoint |-> "http://agent", performanceData |-> "object"]}

RemediationLimits == [tasks |-> MaxSentinelTasks, submits |-> MaxSubmits,
                      agents |-> MaxDirectAgents, dispatches |-> MaxDirectDispatches,
                      decompositions |-> 0, toxic |-> 0]

NextRemediation ==
    \/ RegisterAgentMetadata(RemediationLimits, RemediationMetas)
    \/ SubmitTask(RemediationLimits, ReflectionInputs)
    \/ ProcessQueue(RemediationLimits)
    \/ DispatchResolves(DispatchResults)
    \/ DispatchRejects

SpecRemediation == Init /\ [][NextRemediation]_vars

\* ------------------------------------------------ interfering tasks
\* ConflictSimulation's setting: tasks that name the domains interfering
\* with them, and agents of high and of low skill for both domains.
InterferenceMetas ==
    {[id |-> "agent_a", domainLabels |-> {"logic", "analysis"},
      skillScores |-> [d \in {"logic", "analysis"} |-> 9],
      apiEndpoint |-> "http://agent", performanceData |-> "object"],
     [id |-> "agent_b", domainLabels |-> {"analysis"},
      skillScores |-> [d \in {"logic", "analysis"} |-> 2],
      apiEndpoint |-> "http://agent", performanceData |-> "object"]}

InterferenceInputs ==
    {[spec |-> [TaskSpec(d, 5, 0, {}) EXCEPT !.interferedBy = ib],
      parentTaskId |-> NoTask] :
        d \in VALID_DOMAINS, ib \in {{}, {"logic"}, {"logic", "analysis"}}}
    \cup {[spec |-> [TaskSpec("analysis", 8, 0, {}) EXCEPT !.interferedBy = {"logic"}],
           parentTaskId |-> NoTask]}

NextInterference ==
    \/ RegisterAgentMetadata(RemediationLimits, InterferenceMetas)
    \/ SubmitTask(RemediationLimits, InterferenceInputs)
    \/ ProcessQueue(RemediationLimits)
    \/ DispatchResolves(DispatchResults)
    \/ DispatchRejects

SpecInterference == Init /\ [][NextInterference]_vars

\* ------------------------------------------------- unknown task ids
\* decomposeTask and collaborate called with stored and with unknown ids.
UnknownTaskLimits == [tasks |-> MaxTasks, submits |-> MaxSubmits,
                      agents |-> 0, dispatches |-> 0,
                      decompositions |-> MaxDecompositions, toxic |-> 0,
                      collaborations |-> MaxDirectDispatches]

NextUnknownTask ==
    \/ SubmitTask(UnknownTaskLimits, CollaborationInputs)
    \/ DecomposeTask(UnknownTaskLimits)
    \/ Collaborate(UnknownTaskLimits)

SpecUnknownTask == Init /\ [][NextUnknownTask]_vars

\* One decomposed task whose sub-task is retried on every registered agent:
\* three agents and three dispatches let a sub-task reach MAX_RETRIES.
RetryLimits == [tasks |-> MaxTasks, submits |-> MaxDecompositions,
                agents |-> MaxAgents, dispatches |-> MaxDispatches,
                decompositions |-> MaxDecompositions, toxic |-> 0]

NextRetry ==
    \/ RegisterAgent(RetryLimits, AgentIds)
    \/ SubmitTask(RetryLimits, PlainInputs)
    \/ ProcessQueue(RetryLimits)
    \/ DispatchResolves(DispatchResults)
    \/ DispatchRejects
    \/ DecomposeTask(RetryLimits)

SpecRetry == Init /\ [][NextRetry]_vars

\* A parent and the children submitted under it one after the other, on two
\* ordinary agents: three submissions let a second child arrive after the
\* first has completed.
FamilyLimits == [tasks |-> MaxTasks, submits |-> MaxTasks,
                 agents |-> MaxDirectAgents, dispatches |-> MaxDispatches,
                 decompositions |-> 0, toxic |-> 0]

NextFamily ==
    \/ RegisterAgent(FamilyLimits, ReflectionAgents)
    \/ SubmitTask(FamilyLimits, PlainInputs \cup ChildInputs)
    \/ ProcessQueue(FamilyLimits)
    \/ DispatchResolves(DispatchResults)
    \/ DispatchRejects

SpecFamily == Init /\ [][NextFamily]_vars

\* ------------------------------------------------------------ the claims
Stored == 1..Len(taskQueue)
Processing == {j \in Stored : taskQueue[j].status = "processing"}
TaskIn(q, id) == q[IndexOfTask(q, id)]
AgentIn(ags, id) == ags[IndexOfAgent(ags, id)]
StatusOf(q, id) == TaskIn(q, id).status

\* The tasks this step moved to processing.
Dispatched ==
    {id \in TaskIds : /\ StatusOf(taskQueue, id) # "processing"
                      /\ StatusOf(taskQueue', id) = "processing"}

\* task.reason: no handler of the engine assigns it.
ReasonOf(t) == IF "reason" \in DOMAIN t THEN t.reason ELSE "undefined"

\* C1: an agent is busy exactly when some processing task is assigned to it,
\* and every processing task is assigned to a registered busy agent.
C1_BusyIffProcessing ==
    /\ \A i \in 1..Len(agents) :
          agents[i].status = "busy" <=>
             \E j \in Processing : taskQueue[j].assignedTo = agents[i].id
    /\ \A j \in Processing :
          \E i \in 1..Len(agents) : /\ agents[i].id = taskQueue[j].assignedTo
                                    /\ agents[i].status = "busy"

\* C2: ticks run while dispatches are outstanding, yet no agent is assigned
\* to two processing tasks and no task has two dispatches in flight.
C2_NoDoubleAssignment ==
    /\ \A j, k \in Processing :
          j # k => taskQueue[j].assignedTo # taskQueue[k].assignedTo
    /\ \A m, n \in 1..Len(inflight) :
          m # n => inflight[m].taskId # inflight[n].taskId

\* C3: a task moves to processing only when each of its dependencies names
\* a stored task that is completed.
C3_DispatchNeedsDependencies ==
    [][\A id \in Dispatched :
          \A dep \in TaskOf(id).dependencies :
             HasTask(dep) /\ TaskOf(dep).status = "completed"]_vars

\* C3's case: a task with a dependency has been dispatched.
C3_Witness ==
    \E j \in Processing : taskQueue[j].dependencies # {}

\* C4: a completed task stays completed, whatever step is taken.
C4_CompletedIsFinal ==
    [][\A id \in TaskIds :
          StatusOf(taskQueue, id) = "completed" =>
             StatusOf(taskQueue', id) = "completed"]_vars

\* C5: a completed or failed task's retryCount is the number of entries of
\* its failedAgents.
C5_RetriesAreFailedAgents ==
    \A j \in Stored :
       taskQueue[j].status \in {"completed", "failed"} =>
          taskQueue[j].retryCount = Len(taskQueue[j].failedAgents)

\* C5's case: a task has failed after three agents failed it.
C5_Witness ==
    \E j \in Stored : /\ taskQueue[j].status = "failed"
                      /\ Len(taskQueue[j].failedAgents) = MAX_RETRIES

\* C6: a resolution whose confidence is below 0.6 leaves the agent idle,
\* adds it to failedAgents, adds one to retryCount and stores no output; the
\* task is pending again while retryCount is below 3, else failed with the
\* reason LOW_CONFIDENCE_ABORT.
C6_LowConfidenceRequeues ==
    [][\A i \in 1..Len(inflight) :
          \A result \in ConformingResults :
             (result.confidenceScore < CONFIDENCE_THRESHOLD /\ ResolveWith(i, result)) =>
                LET old == TaskOf(inflight[i].taskId)
                    new == TaskIn(taskQueue', inflight[i].taskId)
                IN /\ AgentIn(agents', inflight[i].agentId).status = "idle"
                   /\ new.failedAgents = Append(old.failedAgents, inflight[i].agentId)
                   /\ new.retryCount = old.retryCount + 1
                   /\ taskOutputs' = taskOutputs
                   /\ IF new.retryCount < MAX_RETRIES
                      THEN new.status = "pending"
                      ELSE /\ new.status = "failed"
                           /\ ReasonOf(new) = "LOW_CONFIDENCE_ABORT"]_vars

\* C7: a task is never dispatched to an agent in its failedAgents, and a
\* tick that finds every idle agent excluded changes nothing.
AllIdleExcluded ==
    LET ni == NextTaskIndex(taskQueue)
    IN /\ ni # 0
       /\ \E i \in 1..Len(agents) : agents[i].status = "idle"
       /\ \A i \in 1..Len(agents) :
             agents[i].status = "idle" =>
                agents[i].id \in SeqToSet(taskQueue[ni].failedAgents)

C7_FailedAgentsExcluded ==
    [][/\ \A id \in Dispatched :
             TaskIn(taskQueue', id).assignedTo \notin SeqToSet(TaskOf(id).failedAgents)
       /\ (AllIdleExcluded /\ ProcessQueue(Limits)) =>
             UNCHANGED <<agents, taskQueue, taskOutputs, inflight>>]_vars

\* C7's case: a task is processing on an agent after another one failed it,
\* while the next ready task finds every idle agent excluded.
C7_Witness ==
    /\ AllIdleExcluded
    /\ \E j \in Processing : taskQueue[j].failedAgents # <<>>

\* C8: a rejected dispatch leaves the agent idle, adds it to failedAgents and
\* adds one to retryCount; the task is pending and unassigned while
\* retryCount is below 3, else failed with the reason MAX_RETRIES_EXHAUSTED;
\* the agent's record counts one more task and no more successes.
C8_RejectionRetries ==
    [][\A i \in 1..Len(inflight) :
          RejectAt(i) =>
             LET old == TaskOf(inflight[i].taskId)
                 new == TaskIn(taskQueue', inflight[i].taskId)
                 was == AgentOf(inflight[i].agentId).performanceData
                 now == AgentIn(agents', inflight[i].agentId).performanceData
             IN /\ AgentIn(agents', inflight[i].agentId).status = "idle"
                /\ new.failedAgents = Append(old.failedAgents, inflight[i].agentId)
                /\ new.retryCount = old.retryCount + 1
                /\ now.tasksCompleted = was.tasksCompleted + 1
                /\ now.successes = was.successes
                /\ IF new.retryCount < MAX_RETRIES
                   THEN new.status = "pending" /\ new.assignedTo = NoAgent
                   ELSE /\ new.status = "failed"
                        /\ ReasonOf(new) = "MAX_RETRIES_EXHAUSTED"]_vars

\* C9: a result that is null, undefined, without its fields or not a number
\* counts as a failed dispatch: the task is not completed, its retryCount
\* grows by one and no output is stored.
C9_MalformedResultFails ==
    [][\A i \in 1..Len(inflight) :
          \A result \in MalformedResults :
             ResolveWith(i, result) =>
                LET old == TaskOf(inflight[i].taskId)
                    new == TaskIn(taskQueue', inflight[i].taskId)
                IN /\ new.status # "completed"
                   /\ new.retryCount = old.retryCount + 1
                   /\ taskOutputs' = taskOutputs]_vars

\* C10: a task object pushed onto the queue with a null or unknown domain is
\* never dispatched, and the first tick that picks it marks it failed with
\* the reason INVALID_TASK.
C10_ToxicTaskFails ==
    [][/\ \A id \in Dispatched : ~IsToxic(TaskOf(id))
       /\ LET ni == NextTaskIndex(taskQueue)
          IN (ni # 0 /\ IsToxic(taskQueue[ni]) /\ ProcessQueue(ToxicLimits)) =>
                LET new == TaskIn(taskQueue', taskQueue[ni].id)
                IN new.status = "failed" /\ ReasonOf(new) = "INVALID_TASK"]_vars

\* C11: a submission with a missing description, a missing or unknown
\* domain, a complexity outside [1,10] or a non-numeric priority throws the
\* invalid-task error and changes nothing; a valid one adds exactly one task,
\* pending, with retryCount 0, no failedAgents and no agent.
ClaimedInvalidTask(taskData) ==
    \/ taskData.description = "undefined"
    \/ taskData.domainLabel \notin VALID_DOMAINS
    \/ /\ taskData.complexityScore.type = "number"
       /\ taskData.complexityScore.value \notin 1..10
    \/ taskData.priority.type = "string"

ClaimedValidTask(taskData) ==
    /\ taskData.description = "text"
    /\ taskData.domainLabel \in VALID_DOMAINS
    /\ taskData.complexityScore.type = "number"
    /\ taskData.complexityScore.value \in 1..10
    /\ taskData.priority.type \in {"undefined", "number"}

C11_SubmissionValidated ==
    [][\A taskData \in TaskDatas :
          SubmitTaskData(ValidationLimits, {taskData}) =>
             /\ ClaimedInvalidTask(taskData) =>
                   /\ ErrorOf(schedLog') = "Invalid Task"
                   /\ UNCHANGED <<agents, taskQueue, taskOutputs, inflight>>
             /\ ClaimedValidTask(taskData) =>
                   /\ Len(taskQueue') = Len(taskQueue) + 1
                   /\ SeqToSet(taskQueue) \subseteq SeqToSet(taskQueue')
                   /\ \A t \in SeqToSet(taskQueue') \ SeqToSet(taskQueue) :
                         /\ t.id \notin TaskIds
                         /\ t.status = "pending"
                         /\ t.retryCount = 0
                         /\ t.failedAgents = <<>>
                         /\ t.assignedTo = NoAgent
                   /\ UNCHANGED <<agents, taskOutputs, inflight>>]_vars

\* C11's case: a submission has just been refused while accepted tasks
\* are stored.
C11_Witness ==
    /\ schedLog.event = "TASK_SUBMISSION_FAILED"
    /\ taskQueue # <<>>

\* C12: registering an id that is already registered throws the
\* invalid-agent error and leaves the registry as it is; a registration that
\* succeeds adds the agent, idle.
C12_RegistrationValidated ==
    [][\A metadata \in AgentMetas :
          RegisterAgentMetadata(ValidationLimits, {metadata}) =>
             IF metadata.id \in Registered
             THEN /\ ErrorOf(schedLog') = "Invalid Agent Registration"
                  /\ agents' = agents
             ELSE agents' # agents =>
                     /\ Len(agents') = Len(agents) + 1
                     /\ SubSeq(agents', 1, Len(agents)) = agents
                     /\ agents'[Len(agents')].id = metadata.id
                     /\ agents'[Len(agents')].status = "idle"]_vars

\* C12's case: a registration has just been refused while an agent that is
\* busy and has a history is registered.
C12_Witness ==
    /\ schedLog.event = "AGENT_REGISTRATION_FAILED"
    /\ \E i \in 1..Len(agents) : agents[i].performanceData.tasksCompleted > 0
    /\ \E i \in 1..Len(agents) : agents[i].status = "busy"
\* The loop at rest: no dispatch is in flight and a tick returns without
\* changing a store (no ready task, no agent for the first ready task, or
\* the same reroute as the tick before), so every later tick ends in this
\* very state.
LoopAtRest ==
    /\ inflight = <<>>
    /\ LET plan == TickPlan(agents, taskQueue)
       IN \/ plan.kind = "none"
          \/ plan.kind = "REROUTE" /\ schedLog = Log("TASK_REROUTED", plan.taskId)

\* The stored tasks `ids` wait for, directly or through other tasks.
RECURSIVE Upstream(_, _, _)
Upstream(q, ids, n) ==
    IF n = 0 THEN ids
    ELSE Upstream(q, ids \cup UNION {q[j].dependencies : j \in {k \in 1..Len(q) : q[k].id \in ids}},
                  n - 1)

TransitiveDependencies(q, t) == Upstream(q, t.dependencies, Len(q))

OnCycle(q, t) == t.id \in TransitiveDependencies(q, t)

\* C13: a dependency cycle among pending tasks is detected within two
\* ticks: once the loop is at rest, where two more ticks change nothing,
\* every task on a cycle is failed with the reason CYCLIC_DEPENDENCY_FAILURE.
C13_CycleDetected ==
    LoopAtRest =>
        \A j \in Stored :
            OnCycle(taskQueue, taskQueue[j]) =>
                /\ taskQueue[j].status = "failed"
                /\ ReasonOf(taskQueue[j]) = "CYCLIC_DEPENDENCY_FAILURE"

\* C14: when a task becomes failed, every pending task that waits for it,
\* directly or through other tasks, becomes failed with the reason
\* DEPENDENCY_FAILURE_CASCADE: at the latest when the failing step leaves
\* the loop at rest, where no later tick changes anything.
C14_FailureCascades ==
    [][\A f \in Stored :
          (/\ taskQueue[f].status # "failed"
           /\ TaskIn(taskQueue', taskQueue[f].id).status = "failed"
           /\ LoopAtRest') =>
              \A t \in Stored :
                  (/\ taskQueue[t].status = "pending"
                   /\ taskQueue[f].id \in TransitiveDependencies(taskQueue, taskQueue[t])) =>
                      LET new == TaskIn(taskQueue', taskQueue[t].id)
                      IN /\ new.status = "failed"
                         /\ ReasonOf(new) = "DEPENDENCY_FAILURE_CASCADE"]_vars

\* C15: the loop stays responsive: a ready task that the tick would dispatch
\* to an idle agent not among its failed agents is eventually dispatched,
\* whatever other tasks are stuck. So the loop is never at rest, where no
\* tick changes anything, while such a task is stored.
C15_LoopStaysResponsive ==
    LoopAtRest =>
        \A j \in Stored :
            ~(/\ IsReady(taskQueue, taskQueue[j])
              /\ AvailableAgents(agents, SeqToSet(taskQueue[j].failedAgents)) # {}
              /\ PlanOf(agents, taskQueue, taskQueue[j]).kind = "DISPATCH")

\* The stored tasks that ask for resource r and are in the given status.
Requiring(r, status) ==
    {j \in Stored : r \in RequirementsOf(taskQueue[j]) /\ taskQueue[j].status = status}

\* C16: for every registered resource, currentUsage is the number of its
\* holder tasks and never exceeds the capacity: an exclusive resource has at
\* most one holder, a parallel one at most its capacity.
C16_ResourceLedger ==
    \A r \in DOMAIN resources :
        LET d == resources[r]
        IN /\ d.holders \subseteq TaskIds
           /\ d.currentUsage = Cardinality(d.holders)
           /\ d.currentUsage <= d.capacity
           /\ d.mode = "exclusive" => Cardinality(d.holders) <= 1
           /\ d.mode = "parallel" =>
                 \E k \in 1..Len(ResourceSpecs) :
                     ResourceSpecs[k].id = r /\ Cardinality(d.holders) <= ResourceSpecs[k].capacity

\* A parallel resource is full, and a third task asking for it is ready
\* while an agent is idle.
C16_Witness ==
    \E r \in DOMAIN resources :
        /\ resources[r].mode = "parallel"
        /\ resources[r].currentUsage = resources[r].capacity
        /\ Cardinality(resources[r].holders) > 1
        /\ Requiring(r, "pending") # {}
        /\ \E a \in 1..Len(agents) : agents[a].status = "idle"

\* The arbitrated loop at rest: no dispatch is in flight and a tick changes
\* nothing (no ready task, no agent, the same reroute again, or a lease
\* refused to a task that needs no collaboration flag).
ArbiterAtRest ==
    /\ inflight = <<>>
    /\ LET plan == TickPlan(agents, taskQueue)
       IN \/ plan.kind = "none"
          \/ plan.kind = "REROUTE" /\ schedLog = Log("TASK_REROUTED", plan.taskId)
          \/ /\ plan.kind = "DISPATCH"
             /\ ~plan.collaborate
             /\ ~tryAcquire(resources, plan.taskId,
                            RequirementsOf(TaskOf(plan.taskId))).ok

C18_SplitHalves ==
    [][LET plan == TickPlan(agents, taskQueue)
       IN (plan.kind = "SPLIT" /\ ProcessQueue(ReflectionLimits)) =>
            LET old == TaskOf(plan.taskId)
                new == TaskIn(taskQueue', plan.taskId)
                c == old.complexityScore
                p == SortPriority(old)
            IN /\ new.status = "waiting_for_subtasks"
               /\ Len(new.subtasks) = 2
               /\ Len(Children(taskQueue', plan.taskId)) = 2
               /\ LET first == TaskIn(taskQueue', new.subtasks[1])
                      second == TaskIn(taskQueue', new.subtasks[2])
                  IN /\ first.status = "pending" /\ second.status = "pending"
                     /\ first.parentTaskId = plan.taskId
                     /\ second.parentTaskId = plan.taskId
                     /\ second.id \notin first.dependencies
                     /\ first.id \notin second.dependencies
                     /\ first.complexityScore = (c + 1) \div 2
                     /\ second.complexityScore = c \div 2
                     /\ first.priority = Min(p + 1, PRIORITY_CEILING)
                     /\ SortPriority(second) = p
               /\ agents' = agents
               /\ inflight' = inflight]_vars

\* C19: when the tick answers a task with COLLABORATE, the task is flagged
\* collaborative, its priority becomes min(priority + 2, 10), its
\* suggestedAction is USE_COLLABORATION_PROTOCOL and it is still dispatched
\* in the same tick; the priority of a collaborative task never exceeds 10.
C19_CollaborateBoosts ==
    [][/\ LET plan == TickPlan(agents, taskQueue)
          IN (plan.collaborate /\ ProcessQueue(ReflectionLimits)) =>
                LET old == TaskOf(plan.taskId)
                    new == TaskIn(taskQueue', plan.taskId)
                IN /\ new.isCollaborative
                   /\ new.priority = Min(SortPriority(old) + 2, PRIORITY_CEILING)
                   /\ SuggestedActionOf(new) = "USE_COLLABORATION_PROTOCOL"
                   /\ new.status = "processing"
                   /\ new.assignedTo = plan.agentId
                   /\ AgentIn(agents', plan.agentId).status = "busy"
                   /\ \E i \in 1..Len(inflight') : inflight'[i].taskId = plan.taskId
       /\ \A j \in 1..Len(taskQueue') :
             taskQueue'[j].isCollaborative => taskQueue'[j].priority <= PRIORITY_CEILING]_vars

\* A task that already had the highest priority is dispatched as a
\* collaborative one.
C19_Witness ==
    \E j \in Stored :
        /\ taskQueue[j].isCollaborative
        /\ taskQueue[j].status = "processing"
        /\ taskQueue[j].priority = PRIORITY_CEILING
        /\ SuggestedActionOf(taskQueue[j]) = "USE_COLLABORATION_PROTOCOL"

\* The tasks of q whose parentTaskId is the given task.
SubtasksOf(q, id) == {j \in 1..Len(q) : q[j].parentTaskId = id}

\* C20: a parent with sub-tasks becomes completed only in a state where
\* every one of its sub-tasks is completed; and in the step in which the
\* last sub-task of a parent completes, the parent (and so on upward) is
\* completed too, with its output stored by AGGREGATOR_SYSTEM.
C20_ParentCompletesLast ==
    [][\A id \in TaskIds :
          LET subs == SubtasksOf(taskQueue', id)
              becomes(k) == /\ StatusOf(taskQueue, k) # "completed"
                            /\ StatusOf(taskQueue', k) = "completed"
              allDone == \A j \in subs : taskQueue'[j].status = "completed"
          IN subs # {} =>
                /\ becomes(id) => allDone
                /\ ((\E j \in subs : taskQueue'[j].id \in TaskIds /\ becomes(taskQueue'[j].id))
                        /\ allDone) =>
                      /\ becomes(id)
                      /\ id \in DOMAIN taskOutputs'
                      /\ taskOutputs'[id].agentId = AGGREGATOR_SYSTEM]_vars

\* C21: the output stored for a parent when it is aggregated is computed
\* from exactly the outputs of its sub-tasks, all completed: its
\* confidenceScore, predictedImpact and actualImpact are the arithmetic
\* means of the children's values (count times the stored value is their
\* sum).
C21_AggregatedOutput ==
    [][\A id \in TaskIds :
          LET subs == SubtasksOf(taskQueue', id)
              out == taskOutputs'[id]
              child(j) == taskOutputs'[taskQueue'[j].id]
              n == Cardinality(subs)
          IN (/\ StatusOf(taskQueue, id) # "completed"
              /\ StatusOf(taskQueue', id) = "completed"
              /\ subs # {}
              /\ out.agentId = AGGREGATOR_SYSTEM) =>
                /\ \A j \in subs : /\ taskQueue'[j].status = "completed"
                                   /\ taskQueue'[j].id \in DOMAIN taskOutputs'
                /\ n * out.confidenceScore =
                      SumOver(subs, [j \in subs |-> child(j).confidenceScore])
                /\ n * out.actualImpact =
                      SumOver(subs, [j \in subs |-> child(j).actualImpact])
                /\ n * out.predictedImpact =
                      SumOver(subs, [j \in subs |-> child(j).predictedImpact])]_vars

\* The step applies the outcome of a dispatch of task id.
OwnOutcome(id) ==
    \E i \in 1..Len(inflight) :
        inflight[i].taskId = id /\ inflight' = RemoveAt(inflight, i)

\* C22: a task with a non-empty subtasks list is never processing and is
\* never dispatched, and it becomes completed or failed only through the
\* aggregation of its sub-tasks, never through the outcome of a dispatch of
\* its own.
C22_ParentsNotDispatched ==
    [][\A j \in 1..Len(taskQueue') :
          LET new == taskQueue'[j]
              id == new.id
          IN Len(new.subtasks) > 0 =>
                /\ new.status # "processing"
                /\ id \notin Dispatched
                /\ (/\ id \in TaskIds
                    /\ StatusOf(taskQueue, id) \notin {"completed", "failed"}
                    /\ new.status \in {"completed", "failed"}) =>
                      /\ ~OwnOutcome(id)
                      /\ new.status = "completed"
                      /\ taskOutputs'[id].agentId = AGGREGATOR_SYSTEM]_vars

\* C23: the task a tick picks for evaluation is a ready task that no other
\* ready task precedes in the order priority descending, then
\* predictedImpact descending.
C23_PickRespectsPriority ==
    LET ni == NextTaskIndex(taskQueue)
    IN ni # 0 =>
          /\ IsReady(taskQueue, taskQueue[ni])
          /\ \A j \in ReadyIndexes(taskQueue) :
                ~Precedes(taskQueue[j], taskQueue[ni])

\* C24: while the execution loop is stopped no task is moved from pending
\* to processing; stopping leaves the dispatches in flight as they are; and
\* the outcome of a dispatch still in flight is applied all the same: its
\* task leaves processing and its agent returns to idle.
C24_StopKeepsInFlight ==
    [][/\ ~executionTimer => Dispatched = {}
       /\ (executionTimer /\ ~executionTimer') =>
             /\ inflight' = inflight
             /\ taskQueue' = taskQueue
             /\ agents' = agents
       /\ \A i \in 1..Len(inflight) :
             (/\ ~executionTimer
              /\ inflight' = RemoveAt(inflight, i)
              /\ StatusOf(taskQueue, inflight[i].taskId) = "processing") =>
                /\ StatusOf(taskQueue', inflight[i].taskId) # "processing"
                /\ AgentIn(agents', inflight[i].agentId).status = "idle"]_vars

\* The loop is stopped with a dispatch still in flight, and an outcome has
\* been applied since the stop.
C24_Witness ==
    /\ ~executionTimer
    /\ inflight # <<>>
    /\ schedLog.event \in {"TASK_COMPLETED", "TASK_REQUEUED", "TASK_REASSIGNMENT"}

\* The performance fields of an agent: the global rollup and the per-domain
\* statistics.
PerformanceOf(agent) ==
    [performanceData |-> agent.performanceData, domains |-> agent.domains]

\* The step commits or rejects a dispatch made to the agent: the result is
\* logged as completed, or the Dispatcher rejected.
LearningUpdate(agentId) ==
    \E i \in 1..Len(inflight) :
        /\ inflight[i].agentId = agentId
        /\ \/ RejectAt(i)
           \/ \E result \in DispatchResults :
                 /\ ~(result.kind = "ok" /\ result.confidenceScore < CONFIDENCE_THRESHOLD)
                 /\ result.kind \notin {"null", "undefined"}
                 /\ ResolveWith(i, result)
           \/ \E result \in DispatchResults :
                 /\ result.kind \in {"null", "undefined"}
                 /\ ResolveWith(i, result)

\* C26: an agent's performance fields change only in the learning update of
\* a step that commits a task dispatched to that agent as completed or
\* takes the rejection of its dispatch; every other step (picking, SPLIT,
\* COLLABORATE, REROUTE, low-confidence reassignment, aggregation) leaves
\* them as they are, and no step changes an agent's id, domain labels or
\* skill scores.
C26_PerformanceOnlyLearns ==
    [][\A k \in 1..Len(agents) :
          LET old == agents[k]
              new == agents'[k]
          IN /\ Len(agents') >= Len(agents)
             /\ new.id = old.id
             /\ new.domainLabels = old.domainLabels
             /\ new.skillScores = old.skillScores
             /\ PerformanceOf(new) # PerformanceOf(old) => LearningUpdate(old.id)]_vars

\* The statuses a task may have.
TaskStatuses ==
    {"pending", "processing", "waiting_for_subtasks", "completed", "failed"}

\* The status changes of the task lifecycle, as pairs <<from, to>>.
LifecycleTransitions ==
    { <<"pending", "processing">>, <<"processing", "completed">>,
      <<"processing", "pending">>, <<"processing", "failed">>,
      <<"pending", "waiting_for_subtasks">>,
      <<"waiting_for_subtasks", "completed">>,
      <<"waiting_for_subtasks", "failed">>, <<"pending", "failed">> }

\* C25: a task's status is one of pending, processing,
\* waiting_for_subtasks, completed, failed; a step changes the status of a
\* task only along pending->processing, processing->completed,
\* processing->pending, processing->failed, pending->waiting_for_subtasks,
\* waiting_for_subtasks->completed, waiting_for_subtasks->failed or
\* pending->failed; and a task that enters the queue enters it pending.
C25_LifecycleTransitions ==
    [][\A j \in 1..Len(taskQueue') :
          LET new == taskQueue'[j]
          IN /\ new.status \in TaskStatuses
             /\ IF new.id \in TaskIds
                   THEN \/ StatusOf(taskQueue, new.id) = new.status
                        \/ <<StatusOf(taskQueue, new.id), new.status>>
                              \in LifecycleTransitions
                   ELSE new.status = "pending"]_vars

\* C27: a call on the bus for a stored task touches only the context keyed
\* by the task's parent id (its own id when it has no parent), so the
\* sub-tasks of one parent share one context. A SHARE_RESULT stores the
\* data under the task's id. A REQUEST_INPUT whose target has a shared
\* result in that context resolves with that data and is not enqueued; one
\* whose target has none resolves with null and is appended to the
\* context's requests.
C27_SharedContext ==
    [][Len(collaborationLogs') > Len(collaborationLogs) =>
          LET call == collaborationLogs'[Len(collaborationLogs')]
              t == TaskIn(taskQueue, call.taskId)
              contextId == IF t.parentTaskId # NoTask THEN t.parentTaskId
                           ELSE call.taskId
              before == IF contextId \in DOMAIN collaborationSpace
                        THEN collaborationSpace[contextId] ELSE NewContext
              after == collaborationSpace'[contextId]
              target == call.payload.targetTaskId
          IN /\ \A c \in DOMAIN collaborationSpace \ {contextId} :
                    collaborationSpace'[c] = collaborationSpace[c]
             /\ call.action = "SHARE_RESULT" =>
                    after.sharedResults[call.taskId].data = call.payload.data
             /\ call.action = "REQUEST_INPUT" =>
                    IF target \in DOMAIN before.sharedResults
                    THEN /\ collaborateResult' = before.sharedResults[target].data
                         /\ after.requests = before.requests
                    ELSE /\ collaborateResult' = "null"
                         /\ Len(after.requests) = Len(before.requests) + 1
                         /\ after.requests[Len(after.requests)].taskId = call.taskId]_vars

\* The records a step appends to the execution log.
AppendedRecords ==
    SubSeq(executionLogs', Len(executionLogs) + 1, Len(executionLogs'))

AgentIdsRegistered == {agents[i].id : i \in 1..Len(agents)}

\* The agents evaluateAssignment may choose from.
Candidates(excludeIds) ==
    {i \in 1..Len(agents) : agents[i].status = "idle" /\ agents[i].id \notin excludeIds}

\* C29: for every stored task and every list of excluded ids,
\* evaluateAssignment answers (null, 0) exactly when no agent is idle and
\* not excluded; otherwise it names an idle agent that is not excluded,
\* gives that agent's predictSuccess for the task, and no idle non-excluded
\* agent has a greater predictSuccess.
C29_BestIdleAgent ==
    \A j \in Stored : \A excludeIds \in SUBSET AgentIdsRegistered :
        LET task == taskQueue[j]
            answer == evaluateAssignment(agents, taskQueue, task, excludeIds)
            cand == Candidates(excludeIds)
        IN IF cand = {}
           THEN answer = [agentId |-> NoAgent, predictedSuccess |-> 0]
           ELSE /\ \E i \in cand :
                      /\ agents[i].id = answer.agentId
                      /\ answer.predictedSuccess = predictSuccess(taskQueue, agents[i], task)
                /\ \A i \in cand :
                      predictSuccess(taskQueue, agents[i], task) <= answer.predictedSuccess

\* A task that has failed on an agent which is idle again and predicts
\* better than the answer, while another agent that predicts better is busy:
\* the answer passes over the excluded and the busy agent.
C29_Witness ==
    \E j \in Stored :
        LET task == taskQueue[j]
            excludeIds == SeqToSet(task.failedAgents)
            answer == evaluateAssignment(agents, taskQueue, task, excludeIds)
        IN /\ answer.agentId # NoAgent
           /\ \E i \in 1..Len(agents) :
                 /\ agents[i].status = "idle"
                 /\ agents[i].id \in excludeIds
                 /\ predictSuccess(taskQueue, agents[i], task) > answer.predictedSuccess
           /\ \E i \in 1..Len(agents) :
                 /\ agents[i].status = "busy"
                 /\ agents[i].id \notin excludeIds
                 /\ predictSuccess(taskQueue, agents[i], task) > answer.predictedSuccess

\* The registered agents that have the domain among their domain labels.
LabelledFor(domain) ==
    {i \in 1..Len(agents) : domain \in agents[i].domainLabels}

\* The registered agents with a skill score above 4 in the domain.
SkilledFor(domain) ==
    {i \in 1..Len(agents) :
        /\ domain \in DOMAIN agents[i].skillScores
        /\ agents[i].skillScores[domain] > COLLAB_SKILL_MIN}

\* C30 as stated: for every stored task suggestRemediation answers SPLIT
\* when the complexity is above 6, otherwise COLLABORATE when at least two
\* registered agents have the task's domain among their domain labels,
\* otherwise REROUTE.
C30_RemediationByLabel ==
    \A j \in Stored :
        LET task == taskQueue[j]
        IN suggestRemediation(agents, task) =
              IF task.complexityScore > 6 THEN "SPLIT"
              ELSE IF Cardinality(LabelledFor(task.domainLabel)) >= 2
                   THEN "COLLABORATE"
              ELSE "REROUTE"

\* C30, amended: for every stored task suggestRemediation answers SPLIT
\* when the complexity is above 6, otherwise COLLABORATE when at least two
\* registered agents either have the task's domain among their domain
\* labels or have a skill score above 4 for it, otherwise REROUTE.
C30_RemediationByLabelOrSkill ==
    \A j \in Stored :
        LET task == taskQueue[j]
        IN suggestRemediation(agents, task) =
              IF task.complexityScore > 6 THEN "SPLIT"
              ELSE IF Cardinality(LabelledFor(task.domainLabel)
                                  \cup SkilledFor(task.domainLabel)) >= 2
                   THEN "COLLABORATE"
              ELSE "REROUTE"

\* A tick has marked a task of complexity at most 6 collaborative although
\* only one agent is labelled with its domain: the second one counts through
\* its skill score.
C30_Witness ==
    \E j \in Stored :
        /\ taskQueue[j].isCollaborative
        /\ taskQueue[j].complexityScore <= 6
        /\ Cardinality(LabelledFor(taskQueue[j].domainLabel)) = 1
        /\ Cardinality(SkilledFor(taskQueue[j].domainLabel)
                       \ LabelledFor(taskQueue[j].domainLabel)) = 1

\* C31: a learning update for (agent, domain) raises that domain's
\* tasksCompleted by exactly one and its count of successes by one or not at
\* all; a failed update leaves averageImpact as it is, and a successful one
\* leaves averageImpact the mean of the impacts of the successful updates:
\* averageImpact' * successes' = averageImpact * successes + impact, the
\* impact being the actualImpact stored for the task just completed by the
\* agent.
C31_MeanOverSuccesses ==
    [][\A k \in 1..Len(agents) : \A d \in VALID_DOMAINS :
          LET old == agents[k].domains[d]
              new == agents'[k].domains[d]
              avg == old.averageImpact
              avgNew == new.averageImpact
          IN new # old =>
               /\ new.tasksCompleted = old.tasksCompleted + 1
               /\ new.successes \in {old.successes, old.successes + 1}
               /\ new.successes = old.successes => avgNew = avg
               /\ new.successes = old.successes + 1 =>
                     \E id \in TaskIds :
                        /\ StatusOf(taskQueue, id) # "completed"
                        /\ StatusOf(taskQueue', id) = "completed"
                        /\ taskOutputs'[id].agentId = agents[k].id
                        /\ avgNew.den # 0
                        /\ avgNew.num * new.successes * avg.den
                             = (avg.num * old.successes
                                  + taskOutputs'[id].actualImpact * avg.den)
                               * avgNew.den]_vars

\* The stored tasks that interfere with a task: processing or completed,
\* with a domain the task lists in interferedBy.
Interferers(task) ==
    {j \in Stored : /\ taskQueue[j].status \in {"processing", "completed"}
                    /\ taskQueue[j].domainLabel \in task.interferedBy}

\* C32: for every registered agent and stored task, predictSuccess is the
\* prediction the task would get with an empty interferedBy list, lowered by
\* 0.15 for each interfering task and not below 0.1; with no interfering
\* task it is that prediction unchanged.
C32_InterferencePenalty ==
    \A k \in 1..Len(agents) : \A j \in Stored :
        LET task == taskQueue[j]
            unpenalised == predictSuccess(taskQueue, agents[k],
                                          [task EXCEPT !.interferedBy = {}])
            c == Cardinality(Interferers(task))
        IN predictSuccess(taskQueue, agents[k], task) =
              IF c = 0 THEN unpenalised
              ELSE IF unpenalised - 1500 * c < 1000 THEN 1000
              ELSE unpenalised - 1500 * c

\* A task dispatched with a prediction lowered by interference, while for
\* another agent the penalty on a stored task stops at the floor.
C32_Witness ==
    /\ \E j \in Stored :
          /\ taskQueue[j].status = "processing"
          /\ Interferers(taskQueue[j]) # {}
          /\ taskQueue[j].predictedSuccess
               = predictSuccess(taskQueue, AgentIn(agents, taskQueue[j].assignedTo),
                                [taskQueue[j] EXCEPT !.interferedBy = {}]) - 1500
    /\ \E k \in 1..Len(agents) : \E j \in Stored :
          /\ Interferers(taskQueue[j]) # {}
          /\ predictSuccess(taskQueue, agents[k], taskQueue[j]) = 1000
          /\ predictSuccess(taskQueue, agents[k],
                            [taskQueue[j] EXCEPT !.interferedBy = {}]) < 2500

\* C33: decomposeTask on an id that is not stored throws the not-found
\* error, and so does collaborate, whatever the agent, action and payload;
\* either call leaves the task queue, the collaboration space and the
\* collaboration log as they were.
C33_UnknownTaskRefused ==
    [][/\ DecomposeTaskOf(UnknownTaskLimits, UnknownTask) =>
             /\ ErrorOf(schedLog') = "Parent task not found"
             /\ UNCHANGED <<taskQueue, collaborationSpace, collaborationLogs>>
       /\ \A agentId \in CollaborationAgents, action \in CollaborationActions :
             \A payload \in CollaborationPayloads(action) :
                CollaborateOn(UnknownTask, agentId, action, payload) =>
                   /\ collaborateResult' = "Error: Task not found"
                   /\ UNCHANGED <<taskQueue, collaborationSpace, collaborationLogs>>]_vars

\* Both calls have been refused while tasks are stored and the bus holds a
\* shared result.
C33_Witness ==
    /\ schedLog.event = "DECOMPOSITION_FAILED"
    /\ collaborateResult = "Error: Task not found"
    /\ taskQueue # <<>>
    /\ collaborationLogs # <<>>

\* C34: under fair ticks and a Dispatcher that always answers, a parent one
\* of whose sub-tasks has failed leaves waiting_for_subtasks and becomes
\* failed.  Once the loop is at rest every later tick ends in the same
\* state, so a parent that is still waiting_for_subtasks then, with a failed
\* sub-task, waits forever.
C34_FailedSubtaskFailsParent ==
    LoopAtRest =>
        \A j \in Stored :
            (\E k \in SubtasksOf(taskQueue, taskQueue[j].id) :
                 taskQueue[k].status = "failed")
                => taskQueue[j].status # "waiting_for_subtasks"

\* C35: an output record exists for a task if and only if the task's status
\* is completed: no path that leaves a task pending, failed or waiting
\* writes an output, and every completion (by dispatch commit or by
\* aggregation) writes one.
C35_OutputIffCompleted ==
    \A j \in Stored :
        taskQueue[j].id \in DOMAIN taskOutputs <=> taskQueue[j].status = "completed"

\* C36: for every task at all times retryCount is at most 3 and
\* failedAgents holds no agent twice; a task whose retryCount has reached 3
\* is failed, and no step dispatches a task whose retryCount has reached 3
\* (each dispatch that does not complete the task raises retryCount by one,
\* so no task is dispatched more than 3 times).
C36_RetriesBounded ==
    [][/\ \A j \in 1..Len(taskQueue') :
            LET t == taskQueue'[j]
            IN /\ t.retryCount # NotANumber /\ t.retryCount <= MAX_RETRIES
               /\ \A a, b \in 1..Len(t.failedAgents) :
                      t.failedAgents[a] = t.failedAgents[b] => a = b
               /\ t.retryCount = MAX_RETRIES => t.status = "failed"
       /\ \A id \in Dispatched :
              TaskIn(taskQueue, id).retryCount < MAX_RETRIES]_vars

\* The dispatches of task `id` in flight.
InFlightOf(fl, id) == {i \in 1..Len(fl) : fl[i].taskId = id}

\* This step completed task `id` by aggregation: it became completed while
\* no dispatch of its own returned.
AggregatedNow(id) ==
    /\ StatusOf(taskQueue, id) # "completed"
    /\ StatusOf(taskQueue', id) = "completed"
    /\ Cardinality(InFlightOf(inflight', id)) = Cardinality(InFlightOf(inflight, id))

\* C37: a parent is aggregated at most once: a parent whose output was
\* written by the aggregator is not aggregated again, and a sub-task
\* completion for an already completed parent changes neither the parent,
\* nor its output, nor its execution records.
C37_AggregatedOnce ==
    [][\A j \in Stored :
          LET id == taskQueue[j].id
              aggregated == /\ id \in DOMAIN taskOutputs
                            /\ taskOutputs[id].agentId = AGGREGATOR_SYSTEM
              childCompletes ==
                  \E k \in SubtasksOf(taskQueue, id) :
                      /\ taskQueue[k].status # "completed"
                      /\ StatusOf(taskQueue', taskQueue[k].id) = "completed"
          IN /\ aggregated => ~AggregatedNow(id)
             /\ (taskQueue[j].status = "completed" /\ childCompletes)
                    => /\ TaskIn(taskQueue', id) = taskQueue[j]
                       /\ taskOutputs'[id] = taskOutputs[id]
                       /\ SelectSeq(executionLogs', LAMBDA r : r.taskId = id)
                              = SelectSeq(executionLogs, LAMBDA r : r.taskId = id)]_vars

\* C38: parent and child links stay consistent: a task has parentTaskId = P
\* exactly when its id is in the subtasks list of the stored task P (so the
\* tasks the aggregator treats as P's sub-tasks are P.subtasks), and no
\* step dispatches a task that has a child which is not completed.
C38_LinksConsistent ==
    [][/\ \A p, c \in 1..Len(taskQueue') :
              taskQueue'[c].parentTaskId = taskQueue'[p].id
                  <=> taskQueue'[c].id \in SeqToSet(taskQueue'[p].subtasks)
       /\ \A id \in Dispatched :
              \A k \in SubtasksOf(taskQueue, id) :
                  taskQueue[k].status = "completed"]_vars

\* C39: automatic splitting terminates: the sub-tasks a SPLIT creates have
\* complexity at most 5, have no sub-tasks of their own and are never the
\* task a tick chooses to split; a task has at most two sub-tasks and the
\* store holds at most three tasks per submission.
C39_SplittingTerminates ==
    /\ \A j \in Stored :
           /\ Len(taskQueue[j].subtasks) <= 2
           /\ taskQueue[j].parentTaskId # NoTask
                  => /\ taskQueue[j].complexityScore <= 5
                     /\ taskQueue[j].subtasks = <<>>
    /\ LET plan == TickPlan(agents, taskQueue)
       IN plan.kind = "SPLIT" => TaskOf(plan.taskId).parentTaskId = NoTask
    /\ Len(taskQueue) <= 3 * calls.submit

\* A split task both of whose sub-tasks went through a tick and were
\* dispatched, the store holding three tasks for one submission.
C39_Witness ==
    /\ calls.submit = 1
    /\ Len(taskQueue) = 3
    /\ \E j \in Stored :
           /\ Len(taskQueue[j].subtasks) = 2
           /\ taskQueue[j].complexityScore > SPLIT_COMPLEXITY
           /\ \A k \in SubtasksOf(taskQueue, taskQueue[j].id) :
                  taskQueue[k].status \in {"processing", "completed"}

\* The agents whose dispatch returned in this step.
ReturnedAgents ==
    {inflight[i].agentId : i \in {n \in 1..Len(inflight) : inflight' = RemoveAt(inflight, n)}}

\* C40: aggregating a parent changes no agent: in a step that completes a
\* parent under AGGREGATOR_SYSTEM, every registered agent other than the
\* one whose dispatch returned keeps its status and its performance
\* fields, whatever id it is registered under.
C40_AggregationTouchesNoAgent ==
    [][\A id \in TaskIds :
          AggregatedNow(id) =>
              \A k \in 1..Len(agents) :
                  agents[k].id \notin ReturnedAgents
                      => /\ agents'[k].status = agents[k].status
                         /\ PerformanceOf(agents'[k]) = PerformanceOf(agents[k])]_vars

====
